---- MODULE Spec2Model ----
(***************************************************************************)
(* A model of the DCPU-16 virtual CPU of markcol/dcpu16 (type DCPU16):     *)
(* its registers, memory, interrupt queue and mutex, the instruction       *)
(* cycle step() = execute() followed by interrupt processing, and the      *)
(* locked accessors Registers(), Read() and Write().                       *)
(*                                                                         *)
(* Words are uint16: every store is reduced modulo 2^16.  The memory       *)
(* array is kept as a function from the non-zero cells to their values (a  *)
(* cell outside its domain holds 0), so equal memories are equal values.   *)
(* A Go pointer returned by lea() is a pair <<kind, index>>.               *)
(***************************************************************************)
EXTENDS Integers, Sequences, FiniteSets, TLC

\* ------------------------------------------------------------ constants
RAMSIZE == 65536
LASTADDR == 65535
MAX_INTQUEUE == 256

\* primary opcodes
EXT == 0
SET == 1
ADD == 2
SUB == 3
MUL == 4
MLI == 5
DIV == 6
DVI == 7
MOD == 8
MDI == 9
AND == 10
BOR == 11
XOR == 12
SHR == 13
ASR == 14
SHL == 15
IFB == 16
IFC == 17
IFE == 18
IFN == 19
IFG == 20
IFA == 21
IFL == 22
IFU == 23
ADX == 26
SBX == 27
STI == 30
STD == 31

\* extended opcodes
JSR == 1
INT == 8
IAG == 9
IAS == 10
RFI == 11
IAQ == 12
HWN == 16
HWQ == 17
HWI == 18

\* register offsets (indices of the slice Registers() returns)
A == 0
B == 1
C == 2
X == 3
Y == 4
Z == 5
I == 6
J == 7
PC == 8
SP == 9
EX == 10
IA == 11
TICK == 12
IQ == 13
regSize == 14

\* ------------------------------------------------- Go integer conversions
uint16(n) == n % 65536

int16(n) ==
    LET m == n % 65536 IN IF m >= 32768 THEN m - 65536 ELSE m

RECURSIVE Pow2(_)
Pow2(n) == IF n = 0 THEN 1 ELSE 2 * Pow2(n - 1)

RECURSIVE BitAnd(_, _)
BitAnd(x, y) ==
    IF x = 0 \/ y = 0 THEN 0
    ELSE (x % 2) * (y % 2) + 2 * BitAnd(x \div 2, y \div 2)

BitOr(x, y) == x + y - BitAnd(x, y)

BitXor(x, y) == x + y - 2 * BitAnd(x, y)

\* A uint32 is carried as its two 16-bit halves [hi, lo], value hi * 2^16 + lo.
U32(hi, lo) == [hi |-> hi, lo |-> lo]

\* uint32(b) * uint32(a), wrapped to 32 bits
Mul32(b, a) ==
    LET p1 == b * (a \div 256)
        p0 == b * (a % 256)
        t  == (p1 % 256) * 256 + p0
    IN  U32(((p1 \div 256) + (t \div 65536)) % 65536, t % 65536)

\* u >> n on a uint32 (Go: a count >= 32 gives 0)
Shr32(u, n) ==
    IF n >= 32 THEN U32(0, 0)
    ELSE IF n >= 16 THEN U32(0, u.hi \div Pow2(n - 16))
    ELSE U32(u.hi \div Pow2(n),
             (u.lo \div Pow2(n)) + (u.hi % Pow2(n)) * Pow2(16 - n))

\* u << n on a uint32, wrapped to 32 bits
Shl32(u, n) ==
    IF n >= 32 THEN U32(0, 0)
    ELSE IF n >= 16 THEN U32((u.lo % Pow2(32 - n)) * Pow2(n - 16), 0)
    ELSE U32(((u.hi % Pow2(16 - n)) * Pow2(n) + (u.lo \div Pow2(16 - n))) % 65536,
             (u.lo % Pow2(16 - n)) * Pow2(n))

\* s >> n on a signed integer of the given width (Go: arithmetic shift; a
\* count >= width - 1 leaves only the sign: 0 or -1)
Sar(s, n, width) ==
    IF n >= width - 1 THEN (IF s < 0 THEN -1 ELSE 0) ELSE s \div Pow2(n)

\* Go's truncated signed remainder x % y, y # 0
Rem(x, y) ==
    LET ax == IF x < 0 THEN -x ELSE x
        ay == IF y < 0 THEN -y ELSE y
    IN  IF x < 0 THEN -(ax % ay) ELSE ax % ay

\* ------------------------------------------------------------ the CPU
\* c.memory[a]
Mem(m, a) == IF a \in DOMAIN m THEN m[a] ELSE 0

\* c.memory[a] = v
MemSet(m, a, v) ==
    IF v = 0 THEN [x \in (DOMAIN m) \ {a} |-> m[x]]
    ELSE [x \in (DOMAIN m) \cup {a} |-> IF x = a THEN v ELSE m[x]]

\* NewDCPU16(): every field zero, an empty interrupt queue
NewDCPU16 ==
    [register |-> [i \in 0..7 |-> 0], memory |-> <<>>,
     pc |-> 0, sp |-> 0, ex |-> 0, ia |-> 0, tick |-> 0,
     intQueueing |-> FALSE, intQueue |-> <<>>, tmpa |-> 0, tmpb |-> 0]

\* *p
Load(c, p) ==
    CASE p[1] = "reg"  -> c.register[p[2]]
      [] p[1] = "mem"  -> Mem(c.memory, p[2])
      [] p[1] = "sp"   -> c.sp
      [] p[1] = "pc"   -> c.pc
      [] p[1] = "ex"   -> c.ex
      [] p[1] = "tmpa" -> c.tmpa
      [] p[1] = "tmpb" -> c.tmpb

\* *p = v
Store(c, p, v) ==
    CASE p[1] = "reg"  -> [c EXCEPT !.register[p[2]] = uint16(v)]
      [] p[1] = "mem"  -> [c EXCEPT !.memory = MemSet(@, p[2], uint16(v))]
      [] p[1] = "sp"   -> [c EXCEPT !.sp = uint16(v)]
      [] p[1] = "pc"   -> [c EXCEPT !.pc = uint16(v)]
      [] p[1] = "ex"   -> [c EXCEPT !.ex = uint16(v)]
      [] p[1] = "tmpa" -> [c EXCEPT !.tmpa = uint16(v)]
      [] p[1] = "tmpb" -> [c EXCEPT !.tmpb = uint16(v)]

\* c.tick += n
Tick(c, n) == [c EXCEPT !.tick = uint16(@ + n)]

\* mutant of nextWord: the fetch is not counted
nextWordNoTick(c) ==
    [c |-> [c EXCEPT !.pc = uint16(@ + 1)], v |-> Mem(c.memory, c.pc)]

\* nextWord: v = memory[pc]; pc++; tick++
nextWord(c) ==
    [c |-> [c EXCEPT !.pc = uint16(@ + 1), !.tick = uint16(@ + 1)],
     v |-> Mem(c.memory, c.pc)]

\* mutant of push: sp is decremented without the 16-bit wrap
pushNoWrap(c) ==
    LET s == c.sp - 1 IN [c |-> [c EXCEPT !.sp = s], p |-> <<"mem", s>>]

\* mutant of push: the pointer is taken before sp is decremented
pushAfter(c) ==
    [c |-> [c EXCEPT !.sp = uint16(@ - 1)], p |-> <<"mem", c.sp>>]

\* push: sp--; return &memory[sp]
push(c) ==
    LET s == uint16(c.sp - 1) IN [c |-> [c EXCEPT !.sp = s], p |-> <<"mem", s>>]

\* pushValue: sp--; memory[sp] = val
pushValue(c, val) ==
    LET s == uint16(c.sp - 1)
    IN  [c EXCEPT !.sp = s, !.memory = MemSet(@, s, val)]

\* pop: v = &memory[sp]; sp++
pop(c) ==
    [c |-> [c EXCEPT !.sp = uint16(@ + 1)], p |-> <<"mem", c.sp>>]

\* mutant of lea: a short literal is addr - 0x20
leaLiteralOff(c, addr, tmp) ==
    CASE addr <= 7  -> [c |-> c, p |-> <<"reg", addr>>]
      [] addr >= 8 /\ addr <= 15 ->
            [c |-> c, p |-> <<"mem", c.register[addr - 8]>>]
      [] addr >= 16 /\ addr <= 23 ->
            LET f == nextWord(c)
            IN  [c |-> f.c, p |-> <<"mem", uint16(f.v + c.register[addr - 16])>>]
      [] addr = 24 -> IF tmp = "tmpa" THEN pop(c) ELSE push(c)
      [] addr = 25 -> [c |-> c, p |-> <<"mem", c.sp>>]
      [] addr = 26 ->
            LET f == nextWord(c)
            IN  [c |-> f.c, p |-> <<"mem", uint16(c.sp + f.v)>>]
      [] addr = 27 -> [c |-> c, p |-> <<"sp", 0>>]
      [] addr = 28 -> [c |-> c, p |-> <<"pc", 0>>]
      [] addr = 29 -> [c |-> c, p |-> <<"ex", 0>>]
      [] addr = 30 ->
            LET f == nextWord(c) IN [c |-> f.c, p |-> <<"mem", f.v>>]
      [] addr = 31 ->
            LET f == nextWord(c)
            IN  [c |-> Store(f.c, <<tmp, 0>>, f.v), p |-> <<tmp, 0>>]
      [] addr >= 32 /\ addr <= 63 ->
            [c |-> Store(c, <<tmp, 0>>, addr - 32), p |-> <<tmp, 0>>]

\* lea: the pointer an operand code denotes; tmp is "tmpa" or "tmpb"
lea(c, addr, tmp) ==
    CASE addr <= 7  -> [c |-> c, p |-> <<"reg", addr>>]
      [] addr >= 8 /\ addr <= 15 ->
            [c |-> c, p |-> <<"mem", c.register[addr - 8]>>]
      [] addr >= 16 /\ addr <= 23 ->
            LET f == nextWord(c)
            IN  [c |-> f.c, p |-> <<"mem", uint16(f.v + c.register[addr - 16])>>]
      [] addr = 24 -> IF tmp = "tmpa" THEN pop(c) ELSE push(c)
      [] addr = 25 -> [c |-> c, p |-> <<"mem", c.sp>>]
      [] addr = 26 ->
            LET f == nextWord(c)
            IN  [c |-> f.c, p |-> <<"mem", uint16(c.sp + f.v)>>]
      [] addr = 27 -> [c |-> c, p |-> <<"sp", 0>>]
      [] addr = 28 -> [c |-> c, p |-> <<"pc", 0>>]
      [] addr = 29 -> [c |-> c, p |-> <<"ex", 0>>]
      [] addr = 30 ->
            LET f == nextWord(c) IN [c |-> f.c, p |-> <<"mem", f.v>>]
      [] addr = 31 ->
            LET f == nextWord(c)
            IN  [c |-> Store(f.c, <<tmp, 0>>, f.v), p |-> <<tmp, 0>>]
      [] addr >= 32 /\ addr <= 63 ->
            [c |-> Store(c, <<tmp, 0>>, addr - 32 - 1), p |-> <<tmp, 0>>]

\* mutant of skipConditional: the operands of the skipped word are resolved
skipConditionalResolving(c) ==
    LET f  == nextWord(c)
        la == lea(f.c, f.v \div 1024, "tmpa")
        lb == lea(la.c, (f.v \div 32) % 32, "tmpb")
    IN  lb.c

\* mutant of skipConditional: the second word is passed over but pc stays
skipConditionalStuck(c) ==
    LET f == nextWord(c)
    IN  IF f.v >= IFB /\ f.v <= IFU
        THEN [nextWord(f.c).c EXCEPT !.pc = f.c.pc]
        ELSE f.c

\* mutant of skipConditional: no word is consumed
skipConditionalNone(c) == c

\* skipConditional: consume one word, and one more when that whole word is
\* in IFB..IFU
skipConditional(c) ==
    LET f == nextWord(c)
    IN  IF f.v >= IFB /\ f.v <= IFU THEN nextWord(f.c).c ELSE f.c

\* hardwareQuery and handleHardwareInterrupt return at once
hardwareQuery(c, hwindex) == c

handleHardwareInterrupt(c, hwint) == c

\* ------------------------------------------- execute: the primary cases
\* Each case threads the state through its statements in source order, so a
\* pointer that aliases ex, pc, sp or the other operand reads what was last
\* written.
doSET(c, a, b) == Store(c, b, Load(c, a))

\* mutant of doADD: the carry is not stored in EX
doADDNoCarry(c, a, b) ==
    LET v  == Load(c, b) + Load(c, a)
        c1 == [c EXCEPT !.ex = 0]
    IN  Tick(Store(c1, b, v), 1)

doADD(c, a, b) ==
    LET v  == Load(c, b) + Load(c, a)
        c1 == [c EXCEPT !.ex = uint16(v \div 65536)]
    IN  Tick(Store(c1, b, v), 1)

doSUB(c, a, b) ==
    LET v  == Load(c, b) - Load(c, a)
        c1 == [c EXCEPT !.ex = uint16(v \div 65536)]
    IN  Tick(Store(c1, b, v), 1)

\* mutant of doMUL: the high word of the product is dropped
doMULNoHigh(c, opcode, a, b) ==
    LET v  == Mul32(Load(c, b), Load(c, a))
        c1 == [c EXCEPT !.ex = 0]
    IN  Tick(Store(c1, b, v.lo), 1)

\* opcode == MUL compares the whole instruction word; both branches wrap the
\* product of the zero-extended operands to 32 bits
doMUL(c, opcode, a, b) ==
    LET v  == Mul32(Load(c, b), Load(c, a))
        c1 == [c EXCEPT !.ex = v.hi]
    IN  Tick(Store(c1, b, v.lo), 1)

\* mutant of doDIV: a zero divisor costs no extra cycles
doDIVZeroFree(c, opcode, a, b) ==
    IF Load(c, a) = 0
    THEN [Store(c, b, 0) EXCEPT !.ex = 0]
    ELSE LET v  == Load(c, b) \div Load(c, a)
             c1 == [c EXCEPT !.ex = uint16(v \div 65536)]
         IN  Tick(Store(c1, b, v), 2)

\* opcode == DIV compares the whole word; int32(*b) is the zero-extended
\* operand, so both branches divide unsigned
doDIV(c, opcode, a, b) ==
    IF Load(c, a) = 0
    THEN Tick([Store(c, b, 0) EXCEPT !.ex = 0], 2)
    ELSE LET v  == Load(c, b) \div Load(c, a)
             c1 == [c EXCEPT !.ex = uint16(v \div 65536)]
         IN  Tick(Store(c1, b, v), 2)

\* opcode == MOD compares the whole word: unsigned only for the word 0x0008
doMOD(c, opcode, a, b) ==
    IF Load(c, a) = 0
    THEN Tick(Store(c, b, 0), 2)
    ELSE IF opcode = MOD
    THEN Tick(Store(c, b, Load(c, b) % Load(c, a)), 2)
    ELSE Tick(Store(c, b, Rem(int16(Load(c, b)), int16(Load(c, a)))), 2)

doAND(c, a, b) == Store(c, b, BitAnd(Load(c, b), Load(c, a)))

doBOR(c, a, b) == Store(c, b, BitOr(Load(c, b), Load(c, a)))

doXOR(c, a, b) == Store(c, b, BitXor(Load(c, b), Load(c, a)))

doSHR(c, a, b) ==
    LET c1 == [c EXCEPT !.ex = Shr32(U32(Load(c, b), 0), Load(c, a)).lo]
        n  == Load(c1, a)
    IN  Store(c1, b, IF n >= 16 THEN 0 ELSE Load(c1, b) \div Pow2(n))

\* int32(*b) << 16 is int16(*b) * 2^16
doASR(c, a, b) ==
    LET c1 == [c EXCEPT
                 !.ex = uint16(Sar(int16(Load(c, b)) * 65536, Load(c, a), 32))]
        t  == int16(Load(c1, b))
    IN  Store(c1, b, Sar(t, Load(c1, a), 16))

doSHL(c, a, b) ==
    LET c1 == [c EXCEPT !.ex = Shl32(U32(0, Load(c, b)), Load(c, a)).hi]
        n  == Load(c1, a)
    IN  Store(c1, b, IF n >= 16 THEN 0 ELSE (Load(c1, b) % Pow2(16 - n)) * Pow2(n))

\* the condition of IFB..IFU for the primary opcode o
Cond(o, vb, va) ==
    CASE o = IFB -> BitAnd(vb, va) # 0
      [] o = IFC -> BitAnd(vb, va) = 0
      [] o = IFE -> vb = va
      [] o = IFN -> vb # va
      [] o = IFG -> vb > va
      [] o = IFA -> int16(vb) > int16(va)
      [] o = IFL -> vb < va
      [] o = IFU -> int16(vb) < int16(va)

doIF(c, o, a, b) ==
    IF ~Cond(o, Load(c, b), Load(c, a))
    THEN Tick(skipConditional(c), 1)
    ELSE Tick(c, 1)

doADX(c, a, b) ==
    LET v  == Load(c, b) + Load(c, a) + c.ex
        c1 == [c EXCEPT !.ex = IF v > 32767 THEN 1 ELSE 0]
    IN  Tick(Store(c1, b, v), 2)

doSBX(c, a, b) ==
    LET v  == Load(c, b) - Load(c, a) + c.ex
        c1 == [c EXCEPT !.ex = IF v < -32768 THEN 65535 ELSE 0]
    IN  Tick(Store(c1, b, v), 2)

\* opcode == STI compares the whole word: increments only for the word 0x001e
doSTI(c, opcode, a, b) ==
    LET c1 == Store(c, b, Load(c, a))
        d  == IF opcode = STI THEN 1 ELSE -1
    IN  Tick([c1 EXCEPT !.register[I] = uint16(@ + d),
                        !.register[J] = uint16(@ + d)], 1)

\* ------------------------------------------ execute: the extended cases
\* Each is entered after "opcode = *a; *a = *b", so a points at the operand.
doJSR(c, a) ==
    LET c1 == pushValue(c, c.pc)
    IN  Tick([c1 EXCEPT !.pc = Load(c1, a)], 2)

\* mutant of doINT: the message is put at the head of the queue
doINTPrepend(c, a) ==
    IF Len(c.intQueue) < MAX_INTQUEUE
    THEN [c |-> Tick([c EXCEPT !.intQueue = <<Load(c, a)>> \o @], 3),
          panic |-> FALSE]
    ELSE [c |-> c, panic |-> TRUE]

\* mutant of doINT: the bound is tested with <=
doINTOffByOne(c, a) ==
    IF Len(c.intQueue) <= MAX_INTQUEUE
    THEN [c |-> Tick([c EXCEPT !.intQueue = Append(@, Load(c, a))], 3),
          panic |-> FALSE]
    ELSE [c |-> c, panic |-> TRUE]

\* panics when MAX_INTQUEUE messages are pending; tick += 3 is then not reached
doINT(c, a) ==
    IF Len(c.intQueue) < MAX_INTQUEUE
    THEN [c |-> Tick([c EXCEPT !.intQueue = Append(@, Load(c, a))], 3),
          panic |-> FALSE]
    ELSE [c |-> c, panic |-> TRUE]

doIAG(c, a) == Store(c, a, c.ia)

doIAS(c, a) == [c EXCEPT !.ia = Load(c, a)]

\* mutant of doRFI: queueing is left as it was
doRFIKeepQueueing(c) ==
    LET p1 == pop(c)
        c2 == [p1.c EXCEPT !.register[A] = Load(p1.c, p1.p)]
        p2 == pop(c2)
    IN  Tick([p2.c EXCEPT !.pc = Load(p2.c, p2.p)], 2)

doRFI(c) ==
    LET c1 == [c EXCEPT !.intQueueing = FALSE]
        p1 == pop(c1)
        c2 == [p1.c EXCEPT !.register[A] = Load(p1.c, p1.p)]
        p2 == pop(c2)
    IN  Tick([p2.c EXCEPT !.pc = Load(p2.c, p2.p)], 2)

doIAQ(c, a) == Tick([c EXCEPT !.intQueueing = (Load(c, a) # 0)], 1)

doHWN(c) == Tick([c EXCEPT !.register[A] = 0], 1)

doHWQ(c, a) == Tick(hardwareQuery(c, Load(c, a)), 3)

doHWI(c, a) == Tick(handleHardwareInterrupt(c, Load(c, a)), 3)

\* case EXT: the extended opcode is the VALUE *a of the a operand, and the b
\* operand's value is then stored through the a pointer
doEXT(c, a, b) ==
    LET opcode == Load(c, a)
        c1     == Store(c, a, Load(c, b))
        ok(cc) == [c |-> cc, panic |-> FALSE, ext |-> opcode]
    IN  CASE opcode = JSR -> ok(doJSR(c1, a))
          [] opcode = INT ->
                LET r == doINT(c1, a)
                IN  [c |-> r.c, panic |-> r.panic, ext |-> opcode]
          [] opcode = IAG -> ok(doIAG(c1, a))
          [] opcode = IAS -> ok(doIAS(c1, a))
          [] opcode = RFI -> ok(doRFI(c1))
          [] opcode = IAQ -> ok(doIAQ(c1, a))
          [] opcode = HWN -> ok(doHWN(c1))
          [] opcode = HWQ -> ok(doHWQ(c1, a))
          [] opcode = HWI -> ok(doHWI(c1, a))
          [] OTHER -> ok(c1)

\* (opcode & ARGA_MASK) >> ARGA_SHIFT, (opcode & ARGB_MASK) >> ARGB_SHIFT,
\* opcode & OPCODE_MASK
ArgA(opcode) == (opcode \div 1024) % 64

ArgB(opcode) == (opcode \div 32) % 32

Op(opcode) == opcode % 32

\* the early return of execute: b is the literal holder &c.tmpb and the whole
\* word is not in IFB..IFU
LiteralReturn(opcode, b) ==
    b = <<"tmpb", 0>> /\ ~(opcode >= IFB /\ opcode <= IFU)

\* the switch on opcode & OPCODE_MASK; sel records the case taken
dispatch(c, opcode, a, b) ==
    LET o == Op(opcode)
        prim(cc) == [c |-> cc, panic |-> FALSE, sel |-> <<"prim", o>>]
    IN  CASE o = EXT ->
                LET r == doEXT(c, a, b)
                IN  [c |-> r.c, panic |-> r.panic, sel |-> <<"ext", r.ext>>]
          [] o = SET -> prim(doSET(c, a, b))
          [] o = ADD -> prim(doADD(c, a, b))
          [] o = SUB -> prim(doSUB(c, a, b))
          [] o \in {MUL, MLI} -> prim(doMUL(c, opcode, a, b))
          [] o \in {DIV, DVI} -> prim(doDIV(c, opcode, a, b))
          [] o \in {MOD, MDI} -> prim(doMOD(c, opcode, a, b))
          [] o = AND -> prim(doAND(c, a, b))
          [] o = BOR -> prim(doBOR(c, a, b))
          [] o = XOR -> prim(doXOR(c, a, b))
          [] o = SHR -> prim(doSHR(c, a, b))
          [] o = ASR -> prim(doASR(c, a, b))
          [] o = SHL -> prim(doSHL(c, a, b))
          [] o \in IFB..IFU -> prim(doIF(c, o, a, b))
          [] o = ADX -> prim(doADX(c, a, b))
          [] o = SBX -> prim(doSBX(c, a, b))
          [] o \in {STI, STD} -> prim(doSTI(c, opcode, a, b))
          [] OTHER -> prim(c)

\* mutant of execute: b is resolved before a
executeBFirst(c) ==
    LET f  == nextWord(c)
        lb == lea(f.c, ArgB(f.v), "tmpb")
        la == lea(lb.c, ArgA(f.v), "tmpa")
    IN  IF LiteralReturn(f.v, lb.p)
        THEN [c |-> la.c, panic |-> FALSE, sel |-> <<"lit", Op(f.v)>>, word |-> f.v]
        ELSE LET r == dispatch(la.c, f.v, la.p, lb.p)
             IN  [c |-> r.c, panic |-> r.panic, sel |-> r.sel, word |-> f.v]

\* execute: fetch the word, resolve a then b, return early or dispatch.
\* The result carries the state, whether INT panicked, the word and the case.
execute(c) ==
    LET f  == nextWord(c)
        la == lea(f.c, ArgA(f.v), "tmpa")
        lb == lea(la.c, ArgB(f.v), "tmpb")
    IN  IF LiteralReturn(f.v, lb.p)
        THEN [c |-> lb.c, panic |-> FALSE, sel |-> <<"lit", Op(f.v)>>, word |-> f.v]
        ELSE LET r == dispatch(lb.c, f.v, la.p, lb.p)
             IN  [c |-> r.c, panic |-> r.panic, sel |-> r.sel, word |-> f.v]

\* mutant of processInterrupt: A is pushed before PC
processInterruptSwapped(c) ==
    IF ~c.intQueueing /\ Len(c.intQueue) > 0
    THEN LET a  == c.intQueue[1]
             c1 == [c EXCEPT !.intQueue = Tail(@)]
         IN  IF c1.ia # 0
             THEN LET c2 == [c1 EXCEPT !.intQueueing = TRUE]
                      c3 == pushValue(c2, c2.register[A])
                      c4 == pushValue(c3, c3.pc)
                  IN  [c4 EXCEPT !.pc = c4.ia, !.register[A] = a]
             ELSE c1
    ELSE c

\* mutant of processInterrupt: delivery does not turn queueing on
processInterruptNoMask(c) ==
    IF ~c.intQueueing /\ Len(c.intQueue) > 0
    THEN LET a  == c.intQueue[1]
             c1 == [c EXCEPT !.intQueue = Tail(@)]
         IN  IF c1.ia # 0
             THEN LET c3 == pushValue(c1, c1.pc)
                      c4 == pushValue(c3, c3.register[A])
                  IN  [c4 EXCEPT !.pc = c4.ia, !.register[A] = a]
             ELSE c1
    ELSE c

\* step, after execute: an interrupt is taken off the queue when queueing is
\* off and one is pending, and delivered when ia # 0
processInterrupt(c) ==
    IF ~c.intQueueing /\ Len(c.intQueue) > 0
    THEN LET a  == c.intQueue[1]
             c1 == [c EXCEPT !.intQueue = Tail(@)]
         IN  IF c1.ia # 0
             THEN LET c2 == [c1 EXCEPT !.intQueueing = TRUE]
                      c3 == pushValue(c2, c2.pc)
                      c4 == pushValue(c3, c3.register[A])
                  IN  [c4 EXCEPT !.pc = c4.ia, !.register[A] = a]
             ELSE c1
    ELSE c

\* mutant of waitTicks: the difference is taken without the wrap
waitTicksNoWrap(tick, oldtick) ==
    IF tick < oldtick THEN oldtick - tick ELSE tick - oldtick

\* step: the ticks the instruction claimed, in uint16 arithmetic
waitTicks(tick, oldtick) ==
    IF tick < oldtick
    THEN uint16(tick + uint16(65535 - oldtick) + 1)
    ELSE tick - oldtick

\* ------------------------------------------------- the accessors' bodies
\* Registers(): a, b, c, x, y, z, i, j, pc, sp, ex, ia, tick, iq
RegisterSlice(c) ==
    [k \in 0..(regSize - 1) |->
        CASE k <= J   -> c.register[k]
          [] k = PC   -> c.pc
          [] k = SP   -> c.sp
          [] k = EX   -> c.ex
          [] k = IA   -> c.ia
          [] k = TICK -> c.tick
          [] k = IQ   -> IF c.intQueueing THEN 1 ELSE 0]

\* mutant of ReadWords: l is cut one word short
ReadWordsShort(c, addr, l) ==
    LET n == IF addr + l > LASTADDR THEN LASTADDR - addr ELSE l
    IN  [k \in 1..n |-> Mem(c.memory, addr + k - 1)]

\* Read(addr, l): l is cut to LASTADDR - addr + 1 when addr + l > LASTADDR
ReadWords(c, addr, l) ==
    LET n == IF addr + l > LASTADDR THEN LASTADDR - addr + 1 ELSE l
    IN  [k \in 1..n |-> Mem(c.memory, addr + k - 1)]

\* copy(c.memory[addr:], data): min(len(data), RAMSIZE - addr) words
RECURSIVE CopyWords(_, _, _, _)
CopyWords(m, addr, data, k) ==
    IF k > Len(data) \/ addr + k - 1 >= RAMSIZE THEN m
    ELSE CopyWords(MemSet(m, addr + k - 1, data[k]), addr, data, k + 1)

WriteWords(c, addr, data) == [c EXCEPT !.memory = CopyWords(@, addr, data, 1)]

\* ------------------------------------------------------- the state machine
VARIABLES
    cpu,        \* the DCPU16 struct
    mutex,      \* c.mutex: "free" or "step"
    rpc,        \* where the goroutine calling Step()/Run() is inside step()
    oldtick,    \* step's local oldtick
    wait,       \* step's local wait, in ticks
    left,       \* calls of step() the driver still makes
    nsteps,     \* history: calls of step() begun
    start,      \* history: the state the machine was started in
    entry,      \* history: the state when the current step() took the lock
    mid,        \* history: the result of the current step's execute()
    enq,        \* history: every message INT appended, in order
    out,        \* history: every message taken off the queue, <<m, pushed>>
    reenabled,  \* history: RFI or IAQ 0 ran since the last delivery
    boundary,   \* history: the state at the last instruction boundary
    ret,        \* the last accessor call: its arguments (addr, len, data),
                \* the slice last returned (val) and the steps begun (at)
    calls,      \* accessor calls made by the other goroutine
    writers     \* goroutines inside a call of Write, each with its position

vars == <<cpu, mutex, rpc, oldtick, wait, left, nsteps, start, entry, mid,
          enq, out, reenabled, boundary, ret, calls, writers>>

\* c.mutex.Lock() returns only when the mutex is free
Lock(m) == m = "free"

\* a machine started in state c whose driver calls step() n times, with
\* the goroutines ws about to call Write
Start(c, n, ws) ==
    /\ cpu = c
    /\ mutex = "free"
    /\ rpc = "idle"
    /\ oldtick = 0
    /\ wait = 0
    /\ left = n
    /\ nsteps = 0
    /\ start = c
    /\ entry = c
    /\ mid = [c |-> c, panic |-> FALSE, sel |-> <<"none", 0>>, word |-> 0]
    /\ enq = c.intQueue
    /\ out = <<>>
    /\ reenabled = FALSE
    /\ boundary = c
    /\ ret = [op |-> "none", addr |-> 0, len |-> 0, data |-> <<>>,
              val |-> <<>>, at |-> 0]
    /\ calls = 0
    /\ writers = ws

\* a machine started in state c whose driver calls step() n times
Boot(c, n) == Start(c, n, <<>>)

\* step(): c.mutex.Lock(); oldtick := c.tick
StepLock ==
    /\ rpc = "idle"
    /\ left > 0
    /\ Lock(mutex)
    /\ mutex' = "step"
    /\ rpc' = "exec"
    /\ oldtick' = cpu.tick
    /\ left' = left - 1
    /\ nsteps' = nsteps + 1
    /\ entry' = cpu
    /\ UNCHANGED <<cpu, wait, start, mid, enq, out, reenabled, boundary, ret, calls,
                   writers>>

\* step(): c.execute(), which may panic in INT
StepExecute ==
    /\ rpc = "exec"
    /\ LET r == execute(cpu)
       IN  /\ cpu' = r.c
           /\ mid' = r
           /\ rpc' = IF r.panic THEN "panic" ELSE "intr"
           /\ enq' = IF r.sel = <<"ext", INT>> /\ ~r.panic
                     THEN Append(enq, r.c.intQueue[Len(r.c.intQueue)])
                     ELSE enq
           /\ reenabled' = (\/ reenabled
                            \/ r.sel = <<"ext", RFI>>
                            \/ r.sel = <<"ext", IAQ>> /\ ~r.c.intQueueing)
    /\ UNCHANGED <<mutex, oldtick, wait, left, nsteps, start, entry, out,
                   boundary, ret, calls,
                   writers>>

\* step(): the interrupt processing and the computation of wait
StepInterrupt ==
    /\ rpc = "intr"
    /\ cpu' = processInterrupt(cpu)
    /\ wait' = waitTicks(cpu'.tick, oldtick)
    /\ rpc' = "done"
    /\ LET taken     == Len(cpu'.intQueue) < Len(cpu.intQueue)
           delivered == taken /\ cpu'.sp # cpu.sp
       IN  /\ out' = IF taken THEN Append(out, <<cpu.intQueue[1], delivered>>)
                     ELSE out
           /\ reenabled' = IF delivered THEN FALSE ELSE reenabled
    /\ UNCHANGED <<mutex, oldtick, left, nsteps, start, entry, mid, enq,
                   boundary, ret, calls,
                   writers>>

\* step(): the deferred c.mutex.Unlock(), on return and on a panic; an
\* unrecovered panic ends the program
StepUnlock ==
    /\ rpc \in {"done", "panic"}
    /\ mutex' = "free"
    /\ rpc' = IF rpc = "panic" THEN "crashed" ELSE "idle"
    /\ boundary' = cpu
    /\ UNCHANGED <<cpu, oldtick, wait, left, nsteps, start, entry, mid, enq,
                   out, reenabled, ret, calls, writers>>

NextStep == StepLock \/ StepExecute \/ StepInterrupt \/ StepUnlock

\* ------------------------------------- the accessors, on another goroutine
\* bounds and inputs of the accessor calls
MaxCalls == 2

ReadAddrs == {0, 1, 65534, 65535}

ReadLens == {1, 2, 3}

WriteAddrs == {1, 65535}

WriteData == {<<43296>>, <<7, 9>>}

\* mutant of Registers: the slice is copied without taking the mutex
RegistersNoLock ==
    /\ calls < MaxCalls
    /\ rpc # "crashed"
    /\ ret' = [op |-> "Registers", addr |-> 0, len |-> regSize, data |-> <<>>,
               val |-> RegisterSlice(cpu), at |-> nsteps]
    /\ calls' = calls + 1
    /\ UNCHANGED <<cpu, mutex, rpc, oldtick, wait, left, nsteps, start, entry,
                   mid, enq, out, reenabled, boundary, writers>>

\* Registers(): Lock, copy the registers, deferred Unlock
Registers ==
    /\ calls < MaxCalls
    /\ rpc # "crashed"
    /\ Lock(mutex)
    /\ ret' = [op |-> "Registers", addr |-> 0, len |-> regSize, data |-> <<>>,
               val |-> RegisterSlice(cpu), at |-> nsteps]
    /\ calls' = calls + 1
    /\ UNCHANGED <<cpu, mutex, rpc, oldtick, wait, left, nsteps, start, entry,
                   mid, enq, out, reenabled, boundary, writers>>

\* Read(addr, l): Lock, copy l words, deferred Unlock
Read ==
    /\ calls < MaxCalls
    /\ rpc # "crashed"
    /\ Lock(mutex)
    /\ \E addr \in ReadAddrs, l \in ReadLens :
          ret' = [op |-> "Read", addr |-> addr, len |-> l, data |-> <<>>,
                  val |-> ReadWords(cpu, addr, l), at |-> nsteps]
    /\ calls' = calls + 1
    /\ UNCHANGED <<cpu, mutex, rpc, oldtick, wait, left, nsteps, start, entry,
                   mid, enq, out, reenabled, boundary, writers>>

\* Write(addr, data): Lock, copy data into memory, deferred Unlock
Write ==
    /\ calls < MaxCalls
    /\ rpc # "crashed"
    /\ Lock(mutex)
    /\ \E addr \in WriteAddrs, data \in WriteData :
          /\ cpu' = WriteWords(cpu, addr, data)
          /\ ret' = [op |-> "Write", addr |-> addr, len |-> Len(data),
                     data |-> data, val |-> ret.val, at |-> nsteps]
    /\ boundary' = cpu'
    /\ calls' = calls + 1
    /\ UNCHANGED <<mutex, rpc, oldtick, wait, left, nsteps, start, entry,
                   mid, enq, out, reenabled, writers>>

\* ----------------------------------------------------------- programs
\* the instruction word with opcode o in bits 0-4, b in bits 5-9, a in 10-15
Word(o, a, b) == a * 1024 + b * 32 + o

\* an extended instruction as the specification lays it out: the extended
\* opcode in the a position, the operand in the b position
ExtWord(op, operand) == Word(EXT, op, operand)

\* an extended instruction whose a operand is the short literal op (operand
\* code 0x21 + op), the form for which execute's "opcode = *a" yields op
LitExtWord(op, operand) == Word(EXT, 33 + op, operand)

\* memory holding the words ws from address base on
Image(base, ws) == CopyWords(<<>>, base, ws, 1)

\* a fresh CPU with memory m and the general registers listed in regs
Machine(m, regs) ==
    [NewDCPU16 EXCEPT
        !.memory = m,
        !.register = [i \in 0..7 |-> IF i \in DOMAIN regs THEN regs[i] ELSE 0]]

\* bounds
MaxSteps == 6

\* interrupt programs: four words, each one of IAS X, INT Y, INT B, IAQ X,
\* IAQ Z, RFI, with the extended opcode as a short literal
IntWords ==
    {LitExtWord(IAS, X), LitExtWord(INT, Y), LitExtWord(INT, B),
     LitExtWord(IAQ, X), LitExtWord(IAQ, Z), LitExtWord(RFI, A)}

\* the same instructions laid out as the specification says
SpecIntWords ==
    {ExtWord(IAS, X), ExtWord(INT, Y), ExtWord(IAQ, Z), ExtWord(RFI, A)}

IntRegs == (A :> 5) @@ (B :> 7) @@ (X :> 2) @@ (Y :> 4660)

IntMachines ==
    {Machine(Image(0, w), IntRegs) : w \in [1..4 -> IntWords]}
    \cup {Machine(Image(0, w), IntRegs) : w \in [1..3 -> SpecIntWords]}
    \cup {Machine(Image(0, w) @@ (5 :> 8), IntRegs) : w \in [1..3 -> SpecIntWords]}
    \cup {Machine(<<>>, (A :> v)) : v \in {JSR, INT, IAG, IAS, RFI, IAQ, HWN}}

Init == \E c \in IntMachines : Boot(c, MaxSteps)

Next == NextStep

Spec == Init /\ [][Next]_vars

\* queue programs: IAQ X turns queueing on, then INT r; SET PC, 1 loops,
\* each turn appending one message that is never delivered; r is Y or B, the
\* extended opcode a short literal, a word of memory or read through A
MaxQueueSteps == 520

QueueMachines ==
    {Machine(Image(0, <<LitExtWord(IAQ, X), LitExtWord(INT, r),
                        Word(SET, 34, 28)>>), IntRegs) : r \in {Y, B}}
    \cup {Machine(Image(0, <<LitExtWord(IAQ, X), Word(EXT, 31, Y), INT,
                             Word(SET, 34, 28)>>), IntRegs)}

InitQueue == \E c \in QueueMachines : Boot(c, MaxQueueSteps)

SpecQueue == InitQueue /\ [][Next]_vars

\* concurrent runs: a driver stepping an interrupt program while another
\* goroutine calls the accessors
MaxConcSteps == 3

ConcMachines ==
    {Machine(Image(0, <<LitExtWord(IAS, X), LitExtWord(INT, Y), w>>), IntRegs) :
        w \in {LitExtWord(RFI, A), LitExtWord(INT, B)}}

InitConc == \E c \in ConcMachines : Boot(c, MaxConcSteps)

NextConc == StepLock \/ StepExecute \/ StepInterrupt \/ StepUnlock
            \/ Registers \/ Read \/ Write

SpecConc == InitConc /\ [][NextConc]_vars

\* literal-destination programs: one primary instruction whose b operand is
\* the next-word literal (operand code 0x1f), a being register X, the short
\* literal 1 or a next-word literal, over several operand values and EX
MaxLitSteps == 2

LitOps ==
    {SET, ADD, SUB, MUL, MLI, DIV, DVI, MOD, MDI, AND, BOR, XOR, SHR, ASR, SHL,
     ADX, SBX, STI, STD}

LitMachines ==
    {[Machine(Image(0, <<Word(o, a, 31), w1, w2>>), (X :> x)) EXCEPT !.ex = e] :
        o \in LitOps, a \in {X, 34, 31}, w1 \in {65535, 3}, w2 \in {65535, 3},
        x \in {2, 65535}, e \in {0, 1}}

InitLit == \E c \in LitMachines : Boot(c, MaxLitSteps)

SpecLit == InitLit /\ [][Next]_vars

\* conditional programs: IFx A, B at address 0 followed by an instruction of
\* one, two or three words or by another IFx, then by SET instructions
MaxSkipSteps == 3

SkipNext ==
    {Word(SET, 34, C), Word(SET, 31, C), Word(SET, 31, 30), Word(ADD, 16, 26),
     Word(IFE, B, B), Word(IFE, A, A), Word(IFN, 31, A)}

SkipMachines ==
    {Machine(Image(0, <<Word(o, B, A), n, w, Word(SET, 34, Y), Word(SET, 34, I)>>),
             (A :> r[1]) @@ (B :> r[2])) :
        o \in IFB..IFU, n \in SkipNext, w \in {Word(SET, 34, C), Word(SET, 31, Z)},
        r \in {<<0, 0>>, <<1, 0>>, <<0, 1>>, <<65535, 1>>, <<1, 65535>>}}

InitSkip == \E c \in SkipMachines : Boot(c, MaxSkipSteps)

SpecSkip == InitSkip /\ [][Next]_vars

\* ------------------------------------------------------------- claims
\* the messages of out, in the order they left the queue
OutMsgs == [k \in 1..Len(out) |-> out[k][1]]

\* the number of interrupts delivered to the handler so far
Delivered == Cardinality({k \in 1..Len(out) : out[k][2]})

\* C1: at the end of a Step an interrupt is delivered iff, after the
\* instruction body, queueing is off, the queue is non-empty and IA # 0;
\* delivery removes the head m, sets queueing, pushes PC then A (SP drops by
\* 2, Memory[SP] = old A, Memory[SP+1] = old PC), sets PC = IA and A = m;
\* otherwise nothing is pushed and PC, A and the flag stay as the body left
\* them.
C1_DeliveryAtBoundary ==
    rpc = "done" =>
        LET body == mid.c
        IN  IF ~body.intQueueing /\ Len(body.intQueue) > 0 /\ body.ia # 0
            THEN /\ cpu.intQueue = Tail(body.intQueue)
                 /\ cpu.intQueueing
                 /\ cpu.sp = (body.sp + 65536 - 2) % 65536
                 /\ Mem(cpu.memory, cpu.sp) = body.register[A]
                 /\ Mem(cpu.memory, (cpu.sp + 1) % 65536) = body.pc
                 /\ cpu.pc = body.ia
                 /\ cpu.register[A] = body.intQueue[1]
            ELSE /\ cpu.sp = body.sp
                 /\ cpu.memory = body.memory
                 /\ cpu.pc = body.pc
                 /\ cpu.register = body.register
                 /\ cpu.intQueueing = body.intQueueing

\* C1 witness: a Step has just delivered the message 4660 over the old A = 5
C1_Witness ==
    /\ rpc = "done"
    /\ ~mid.c.intQueueing /\ cpu.intQueueing
    /\ mid.c.register[A] = 5 /\ mid.c.pc # 0
    /\ cpu.register[A] = 4660

\* C2: messages leave the interrupt queue (delivered or discarded) in exactly
\* the order INT appended them: what has left, followed by what is pending,
\* is what was appended.
C2_Fifo == OutMsgs \o cpu.intQueue = enq

\* C2 witness: two different messages have left the queue and one is pending
C2_Witness ==
    /\ Len(out) >= 2
    /\ out[1][1] # out[2][1]
    /\ Len(cpu.intQueue) >= 1

\* C5: one Step delivers at most one interrupt, and after a delivery no
\* further interrupt is delivered until RFI or IAQ with operand 0 has
\* executed, however many INT run in between.
C5_OneDeliveryUntilReenabled ==
    [][(rpc = "intr" /\ rpc' = "done") =>
          /\ Len(out') <= Len(out) + 1
          /\ (Len(out') > Len(out) /\ out'[Len(out')][2])
                => (Delivered = 0 \/ reenabled)]_vars

\* C5 witness: after a delivery two INT have run and their messages are
\* still queued, no RFI or IAQ 0 having executed
C5_Witness ==
    /\ Delivered = 1
    /\ ~reenabled
    /\ rpc = "idle"
    /\ Len(cpu.intQueue) = 2

\* the program IAS X; INT Y with RFI at the handler address X (= 2), laid
\* out as the specification says, queueing off and the queue empty
RoundTripProgram ==
    /\ Mem(start.memory, 0) = ExtWord(IAS, X)
    /\ Mem(start.memory, 1) = ExtWord(INT, Y)
    /\ Mem(start.memory, start.register[X]) = ExtWord(RFI, A)
    /\ start.register[X] # 0
    /\ ~start.intQueueing /\ start.intQueue = <<>>

\* C6: interrupt round trip: after IAS m (m # 0) and INT k, at the end of
\* the INT step A = k, PC = m, queueing is on, Memory[SP] is the previous A
\* and Memory[SP+1] the address after INT; RFI then restores A, PC and SP and
\* leaves queueing off.
C6_RoundTrip ==
    RoundTripProgram =>
        /\ (nsteps = 2 /\ rpc = "done") =>
              /\ cpu.register[A] = start.register[Y]
              /\ cpu.pc = start.register[X]
              /\ cpu.intQueueing
              /\ Mem(cpu.memory, cpu.sp) = start.register[A]
              /\ Mem(cpu.memory, (cpu.sp + 1) % 65536) = 2
        /\ (nsteps = 3 /\ rpc = "done") =>
              /\ cpu.register[A] = start.register[A]
              /\ cpu.pc = 2
              /\ cpu.sp = start.sp
              /\ ~cpu.intQueueing

\* the extended opcodes of the instruction table
ExtOpcodes == {JSR, INT, IAG, IAS, RFI, IAQ, HWN, HWQ, HWI}

\* C7: for an instruction word with primary opcode 0 the extended operation
\* executed is the one its extended-opcode bit field names, whatever the
\* registers and memory hold, and selecting it writes no register and no
\* memory cell (IAS and IAQ, which only set IA and the queueing flag, leave
\* every register and memory cell as they were).
C7_ExtendedOpcodeFromWord ==
    (/\ rpc \in {"intr", "panic"}
     /\ Op(mid.word) = EXT
     /\ ArgA(mid.word) \in ExtOpcodes
     /\ ArgB(mid.word) # 31)
        => /\ mid.sel = <<"ext", ArgA(mid.word)>>
           /\ ArgA(mid.word) \in {IAS, IAQ} =>
                 /\ mid.c.register = entry.register
                 /\ mid.c.memory = entry.memory

\* C3: the interrupt queue never holds more than 256 messages, and an INT
\* executed while 256 are pending raises the fatal fault (a panic) instead of
\* appending or dropping: the 256 pending messages stay queued unchanged.
C3_QueueBounded ==
    /\ Len(cpu.intQueue) <= 256
    /\ (rpc \in {"intr", "panic"} /\ mid.sel = <<"ext", INT>>) =>
          IF Len(entry.intQueue) = 256
          THEN rpc = "panic" /\ cpu.intQueue = entry.intQueue
          ELSE rpc = "intr" /\ Len(cpu.intQueue) = Len(entry.intQueue) + 1

\* C3 witness: INT has panicked with 256 messages pending
C3_Witness ==
    /\ rpc = "panic"
    /\ mid.sel = <<"ext", INT>>
    /\ Len(cpu.intQueue) = 256

\* C4: what Registers() and Read() return while another goroutine runs
\* Step()/Run() is the CPU state at an instruction boundary (the 14 words
\* A..J, PC, SP, EX, IA, TICK, IQ with IQ = 1 iff queueing is on), never a
\* state inside an instruction or between it and its interrupt delivery.
C4_SnapshotAtBoundary ==
    [][(calls' = calls + 1) =>
          /\ ret'.op = "Registers" =>
                /\ DOMAIN ret'.val = 0..13
                /\ \A r \in 0..7 : ret'.val[r] = boundary.register[r]
                /\ ret'.val[PC] = boundary.pc
                /\ ret'.val[SP] = boundary.sp
                /\ ret'.val[EX] = boundary.ex
                /\ ret'.val[IA] = boundary.ia
                /\ ret'.val[TICK] = boundary.tick
                /\ ret'.val[IQ] = (IF boundary.intQueueing THEN 1 ELSE 0)
          /\ ret'.op = "Read" =>
                \A k \in DOMAIN ret'.val :
                    ret'.val[k] = Mem(boundary.memory, ret'.addr + k - 1)]_vars

\* C4 witness: Registers() returned the state of the boundary after the
\* interrupt delivery, and the driver is now inside its next instruction
C4_Witness ==
    /\ ret.op = "Registers"
    /\ ret.val[IQ] = 1 /\ ret.val[A] = 4660 /\ ret.val[PC] = 2
    /\ rpc = "intr"
    /\ nsteps = 3

\* the state in which execute dispatches the entry state's instruction:
\* the word fetched and both operands resolved
Resolved(c) ==
    LET f  == nextWord(c)
        la == lea(f.c, ArgA(f.v), "tmpa")
        lb == lea(la.c, ArgB(f.v), "tmpb")
    IN  [c |-> lb.c, word |-> f.v, a |-> la.p, b |-> lb.p]

\* the words an operand code consumes after the opcode word
ExtraWords(code) == IF code \in (16..23) \cup {26, 30, 31} THEN 1 ELSE 0

\* the words a primary instruction occupies
Footprint(w) == 1 + ExtraWords(ArgA(w)) + ExtraWords(ArgB(w))

\* C8: a primary instruction whose destination b is the next-word literal
\* stores its result nowhere (general registers, SP and memory unchanged, PC
\* past the fetched words) and otherwise behaves as normal: EX is updated and
\* the per-opcode cycles are charged exactly as if b were writable.
C8_LiteralDestination ==
    (/\ rpc = "done"
     /\ Op(mid.word) \in LitOps \ {STI, STD}
     /\ ArgB(mid.word) = 31)
        => LET r      == Resolved(entry)
               normal == dispatch(r.c, r.word, r.a, r.b).c
           IN  /\ cpu.register = entry.register
               /\ cpu.sp = entry.sp
               /\ cpu.memory = entry.memory
               /\ cpu.pc = (entry.pc + Footprint(mid.word)) % 65536
               /\ cpu.ex = normal.ex
               /\ cpu.tick = normal.tick

\* C9: when an IFx condition is false the Step leaves PC at the first word
\* after the complete next instruction: past its opcode word and one word
\* for each of its operand codes in 0x10-0x17, 0x1a, 0x1e, 0x1f.
C9_SkipWholeInstruction ==
    (/\ rpc = "done"
     /\ mid.sel[1] = "prim" /\ mid.sel[2] \in IFB..IFU
     /\ ArgA(mid.word) <= 7 /\ ArgB(mid.word) <= 7
     /\ ~Cond(mid.sel[2], entry.register[ArgB(mid.word)],
                          entry.register[ArgA(mid.word)])
     /\ Op(Mem(entry.memory, (entry.pc + 1) % 65536)) \notin IFB..IFU)
        => cpu.pc = (entry.pc + 1
                     + Footprint(Mem(entry.memory, (entry.pc + 1) % 65536))) % 65536

\* C10: skip chaining: when an IFx condition is false and the next
\* instruction is itself an IFx, with any operands, the skip also passes over
\* the instruction S that follows it, so S is not executed.
C10_SkipChain ==
    (/\ rpc = "done"
     /\ mid.sel[1] = "prim" /\ mid.sel[2] \in IFB..IFU
     /\ ArgA(mid.word) <= 7 /\ ArgB(mid.word) <= 7
     /\ ~Cond(mid.sel[2], entry.register[ArgB(mid.word)],
                          entry.register[ArgA(mid.word)])
     /\ Op(Mem(entry.memory, (entry.pc + 1) % 65536)) \in IFB..IFU)
        => LET ify == (entry.pc + 1) % 65536
               s   == (ify + Footprint(Mem(entry.memory, ify))) % 65536
           IN  cpu.pc = (s + Footprint(Mem(entry.memory, s))) % 65536

\* ------------------------------------------- conditionals over all values
\* conditional programs over boundary values: IFx B, A at address 0 (b is
\* register A, a is register B) followed by a one-word or a two-word SET
MaxCondSteps == 1

CondVals == {0, 1, 2, 32767, 32768, 65535}

CondMachines ==
    {Machine(Image(0, <<Word(o, B, A), n, Word(SET, 34, Y)>>),
             (A :> vb) @@ (B :> va)) :
        o \in IFB..IFU, n \in {Word(SET, 34, C), Word(SET, 31, C)},
        vb \in CondVals, va \in CondVals}

InitCond == \E c \in CondMachines : Boot(c, MaxCondSteps)

SpecCond == InitCond /\ [][Next]_vars

\* a 16-bit word read as a two's-complement number
Signed(v) == IF v >= 32768 THEN v - 65536 ELSE v

\* the condition each IFx is documented to test
Holds(o, vb, va) ==
    CASE o = IFB -> BitAnd(vb, va) # 0
      [] o = IFC -> BitAnd(vb, va) = 0
      [] o = IFE -> vb = va
      [] o = IFN -> vb # va
      [] o = IFG -> vb > va
      [] o = IFA -> Signed(vb) > Signed(va)
      [] o = IFL -> vb < va
      [] o = IFU -> Signed(vb) < Signed(va)

\* C11: for IFx on register operands PC advances by exactly one word iff
\* the documented condition holds, and otherwise it advances past the
\* complete next instruction; in both cases the general registers, SP, EX,
\* IA and memory are unchanged.
C11_Conditional ==
    (/\ rpc = "done"
     /\ mid.sel[1] = "prim" /\ mid.sel[2] \in IFB..IFU
     /\ ArgA(mid.word) <= 7 /\ ArgB(mid.word) <= 7)
        => LET vb   == entry.register[ArgB(mid.word)]
               va   == entry.register[ArgA(mid.word)]
               next == Mem(entry.memory, (entry.pc + 1) % 65536)
           IN  /\ (cpu.pc = (entry.pc + 1) % 65536) <=> Holds(mid.sel[2], vb, va)
               /\ ~Holds(mid.sel[2], vb, va)
                     => cpu.pc = (entry.pc + 1 + Footprint(next)) % 65536
               /\ cpu.register = entry.register
               /\ cpu.sp = entry.sp /\ cpu.ex = entry.ex /\ cpu.ia = entry.ia
               /\ cpu.memory = entry.memory

\* ------------------------------------------------------- subroutine calls
\* call programs: JSR X at address 0, laid out as the specification says or
\* with the extended opcode as a short literal, and SET PC, POP at the
\* target X, over several values of B and SP
MaxCallSteps == 2

CallMachines ==
    {[Machine(Image(0, <<w>>) @@ Image(l, <<Word(SET, 24, 28)>>),
              (X :> l) @@ (B :> vb)) EXCEPT !.sp = s] :
        w \in {ExtWord(JSR, X), LitExtWord(JSR, X)}, l \in {2, 5},
        vb \in {0, 1}, s \in {0, 100, 65535}}

InitCall == \E c \in CallMachines : Boot(c, MaxCallSteps)

SpecCall == InitCall /\ [][Next]_vars

\* C12: JSR with its target L in register X pushes the address of the word
\* after the JSR (SP drops by 1, Memory[SP] = that address) and sets PC = L;
\* SET PC, POP at L then returns PC to the word after the JSR and restores
\* SP.
C12_CallReturn ==
    (/\ Mem(start.memory, 0) = ExtWord(JSR, X)
     /\ Mem(start.memory, start.register[X]) = Word(SET, 24, 28)
     /\ rpc = "done")
        => /\ nsteps = 1 =>
                 /\ cpu.sp = (start.sp + 65535) % 65536
                 /\ Mem(cpu.memory, cpu.sp) = 1
                 /\ cpu.pc = start.register[X]
           /\ nsteps = 2 =>
                 /\ cpu.pc = 1
                 /\ cpu.sp = start.sp

\* ------------------------------------------------------------- the stack
\* stack programs: SET PUSH, X; SET Y, POP at address 0, over several
\* values of X and of SP, some of which put the stack cell on the program
MaxStackSteps == 2

StackVals == {0, 1, 4660, 65535}

StackPointers == {0, 1, 2, 3, 32768, 65535}

StackMachines ==
    {[Machine(Image(0, <<Word(SET, X, 24), Word(SET, 24, Y)>>),
              (X :> x) @@ (Y :> 9)) EXCEPT !.sp = s] :
        x \in StackVals, s \in StackPointers}

InitStack == \E c \in StackMachines : Boot(c, MaxStackSteps)

SpecStack == InitStack /\ [][Next]_vars

\* C13: with SP = s, SET PUSH, x leaves SP = (s - 1) mod 2^16 and
\* Memory[(s - 1) mod 2^16] = x (address 0xFFFF from SP = 0); the following
\* SET y, POP leaves y = x and SP = s, provided the stack cell is not one
\* of the two instruction words.
C13_PushPop ==
    (/\ Mem(start.memory, 0) = Word(SET, X, 24)
     /\ Mem(start.memory, 1) = Word(SET, 24, Y)
     /\ (start.sp + 65535) % 65536 \notin {0, 1}
     /\ rpc = "done")
        => /\ nsteps = 1 =>
                 /\ cpu.sp = (start.sp + 65535) % 65536
                 /\ Mem(cpu.memory, cpu.sp) = start.register[X]
           /\ nsteps = 2 =>
                 /\ cpu.register[Y] = start.register[X]
                 /\ cpu.sp = start.sp

\* C13 witness: from SP = 0 the value 4660 was pushed at 0xFFFF and popped
\* into Y
C13_Witness ==
    /\ rpc = "done" /\ nsteps = 2
    /\ start.sp = 0 /\ start.register[X] = 4660 /\ start.register[Y] = 9
    /\ Mem(cpu.memory, 65535) = 4660
    /\ cpu.register[Y] = 4660
    /\ cpu.sp = 0

\* ---------------------------------------------------- SET and its sources
\* SET programs: SET d, <source> at address 0 followed by one operand word,
\* for every source operand code but POP and PC, with distinct register
\* values and two data regions so that each source reads a different value
MaxSetSteps == 1

SetSources == (0..63) \ {24, 28}

SetData ==
    [x \in (2..80) \cup (65530..65535) |-> IF x <= 80 THEN 1000 + x ELSE x - 63000]

SetRegs ==
    (A :> 16) @@ (B :> 32) @@ (C :> 65534) @@ (X :> 7) @@ (Y :> 4660)
    @@ (Z :> 0) @@ (I :> 65535) @@ (J :> 9)

SetMachines ==
    {[Machine(Image(0, <<Word(SET, a, d), nw>>) @@ SetData, SetRegs)
        EXCEPT !.sp = s, !.ex = 90] :
        a \in SetSources, d \in {A, X, J}, nw \in {0, 3, 65535}, s \in {48, 65535}}

InitSet == \E c \in SetMachines : Boot(c, MaxSetSteps)

SpecSet == InitSet /\ [][Next]_vars

\* the value a source operand code is documented to denote in state c, nw
\* being the word after the instruction word
SourceValue(c, code, nw) ==
    CASE code <= 7  -> c.register[code]
      [] code >= 8 /\ code <= 15 -> Mem(c.memory, c.register[code - 8])
      [] code >= 16 /\ code <= 23 ->
            Mem(c.memory, (nw + c.register[code - 16]) % 65536)
      [] code = 25 -> Mem(c.memory, c.sp)
      [] code = 26 -> Mem(c.memory, (c.sp + nw) % 65536)
      [] code = 27 -> c.sp
      [] code = 29 -> c.ex
      [] code = 30 -> Mem(c.memory, nw)
      [] code = 31 -> nw
      [] code >= 32 /\ code <= 63 -> (code - 33) % 65536

\* C14: SET into a general register d from a source code other than POP and
\* PC stores the documented value of the source in d, advances PC by 1 plus
\* one for the next word the source consumes, and changes no other general
\* register, nor SP, EX, IA or memory.
C14_SetSources ==
    (/\ rpc = "done"
     /\ mid.sel = <<"prim", SET>>
     /\ ArgB(mid.word) <= 7
     /\ ArgA(mid.word) \notin {24, 28})
        => LET code == ArgA(mid.word)
               d    == ArgB(mid.word)
               nw   == Mem(entry.memory, (entry.pc + 1) % 65536)
           IN  /\ cpu.register[d] = SourceValue(entry, code, nw)
               /\ cpu.pc = (entry.pc + 1 + ExtraWords(code)) % 65536
               /\ \A r \in (0..7) \ {d} : cpu.register[r] = entry.register[r]
               /\ cpu.sp = entry.sp /\ cpu.ex = entry.ex /\ cpu.ia = entry.ia
               /\ cpu.memory = entry.memory

\* C14 witness: SET A, -1 (source code 0x20) has stored 0xFFFF in A
C14_Witness ==
    /\ rpc = "done"
    /\ mid.word = Word(SET, 32, A)
    /\ entry.register[A] = 16
    /\ cpu.register[A] = 65535
    /\ cpu.pc = 1

\* ------------------------------------------------------------ arithmetic
\* arithmetic programs: one instruction op b, a at address 0 over boundary
\* values, in three encodings: b = register B and a = register A; b = the
\* memory cell [X] and a = a next-word literal; b = a = register A (the
\* word then equals the opcode).  ADD is followed by the matching SUB.
MaxAluSteps == 2

AluOps == {ADD, SUB, MUL, MLI, DIV, DVI, MOD, MDI, SHR, ASR, SHL}

AluVals ==
    {0, 1, 2, 15, 16, 17, 31, 32, 33, 4660, 32767, 32768, 65532, 65535}

AluCell == 100

AluMachines ==
    {Machine(Image(0, <<Word(o, A, B)>>
                      \o (IF o = ADD THEN <<Word(SUB, A, B)>> ELSE <<>>)),
             (A :> va) @@ (B :> vb)) :
        o \in AluOps, vb \in AluVals, va \in AluVals}
    \cup
    {Machine(Image(0, <<Word(o, 31, 8 + X), va>>
                      \o (IF o = ADD THEN <<Word(SUB, 31, 8 + X), va>> ELSE <<>>))
             @@ Image(AluCell, <<vb>>),
             (X :> AluCell)) :
        o \in AluOps, vb \in AluVals, va \in AluVals}
    \cup
    {Machine(Image(0, <<Word(o, A, A)>>), (A :> v)) : o \in AluOps, v \in AluVals}

InitAlu == \E c \in AluMachines : Boot(c, MaxAluSteps)

SpecAlu == InitAlu /\ [][Next]_vars

\* the current step executed the primary opcode o with b a general register
\* or a cell [register] and a a general register or a next-word literal
AluStep(o) ==
    /\ rpc = "done"
    /\ mid.sel = <<"prim", o>>
    /\ ArgB(mid.word) <= 15
    /\ ArgA(mid.word) \in (0..7) \cup {31}

\* the values of b and a at entry of the current step
EntryB == SourceValue(entry, ArgB(mid.word), 0)

EntryA == SourceValue(entry, ArgA(mid.word), Mem(entry.memory, (entry.pc + 1) % 65536))

\* the value now held by the destination b of the current step
ResultB ==
    IF ArgB(mid.word) <= 7 THEN cpu.register[ArgB(mid.word)]
    ELSE Mem(cpu.memory, entry.register[ArgB(mid.word) - 8])

\* C15: ADD sets b to (b + a) mod 2^16 and EX to 1 iff b + a >= 2^16, else
\* 0; SUB sets b to (b - a) mod 2^16 and EX to 0xFFFF iff b < a, else 0; so
\* ADD b, a followed by SUB b, a (a not b itself) restores b.
C15_AddSub ==
    /\ AluStep(ADD) =>
          /\ ResultB = (EntryB + EntryA) % 65536
          /\ cpu.ex = (IF EntryB + EntryA >= 65536 THEN 1 ELSE 0)
    /\ AluStep(SUB) =>
          /\ ResultB = (EntryB - EntryA) % 65536
          /\ cpu.ex = (IF EntryB < EntryA THEN 65535 ELSE 0)
    /\ (/\ rpc = "done" /\ nsteps = 2
        /\ Mem(start.memory, 0) = Word(ADD, A, B)
        /\ Mem(start.memory, 1) = Word(SUB, A, B))
          => cpu.register[B] = start.register[B]
    /\ (/\ rpc = "done" /\ nsteps = 2
        /\ Mem(start.memory, 0) = Word(ADD, 31, 8 + X)
        /\ Mem(start.memory, 2) = Word(SUB, 31, 8 + X))
          => Mem(cpu.memory, AluCell) = Mem(start.memory, AluCell)

\* C15 witness: 0xFFFF + 2 carried into 1 and 1 - 2 borrowed back to 0xFFFF
C15_Witness ==
    /\ rpc = "done" /\ nsteps = 2
    /\ Mem(start.memory, 0) = Word(ADD, A, B)
    /\ start.register[B] = 65535 /\ start.register[A] = 2
    /\ entry.register[B] = 1 /\ entry.ex = 1
    /\ cpu.register[B] = 65535 /\ cpu.ex = 65535

\* h * 2^16 + l is the product vb * va of two 16-bit words: both sides are
\* below 2^32 and agree modulo the pairwise coprime 2047, 2048 and 2049,
\* whose product exceeds 2^32
IsProduct(h, l, vb, va) ==
    \A m \in {2047, 2048, 2049} :
        ((h % m) * (65536 % m) + l) % m = ((vb % m) * (va % m)) % m

\* C16: MUL, in any of the operand encodings, sets b to the low 16 bits and
\* EX to the high 16 bits of the unsigned 32-bit product b * a; 0xFFFF *
\* 0xFFFF gives b = 1 and EX = 0xFFFE.
C16_Mul ==
    AluStep(MUL) => IsProduct(cpu.ex, ResultB, EntryB, EntryA)

\* C16 witness: MUL B, A with both 0xFFFF has left B = 1 and EX = 0xFFFE
C16_Witness ==
    /\ rpc = "done"
    /\ mid.word = Word(MUL, A, B)
    /\ entry.register[B] = 65535 /\ entry.register[A] = 65535
    /\ cpu.register[B] = 1 /\ cpu.ex = 65534

\* ((vb << 16) / va) & 0xFFFF for va # 0, by long division of the remainder
\* in two 8-bit steps
DivFraction(vb, va) ==
    LET r1 == (vb % va) * 256
        r2 == (r1 % va) * 256
    IN  ((r1 \div va) * 256 + (r2 \div va)) % 65536

\* C17: DIV with a # 0 sets b to the unsigned quotient floor(b / a) and EX
\* to ((b << 16) / a) & 0xFFFF; with a = 0 it sets b = 0 and EX = 0; either
\* way the step costs the fetches plus the 2 extra cycles of DIV.
C17_Div ==
    AluStep(DIV) =>
        /\ IF EntryA = 0
           THEN ResultB = 0 /\ cpu.ex = 0
           ELSE /\ ResultB = EntryB \div EntryA
                /\ cpu.ex = DivFraction(EntryB, EntryA)
        /\ cpu.tick = (entry.tick + 1 + ExtraWords(ArgA(mid.word)) + 2) % 65536

\* the signed quotient x / y rounded toward zero, y # 0
Quot(x, y) ==
    LET ax == IF x < 0 THEN -x ELSE x
        ay == IF y < 0 THEN -y ELSE y
    IN  IF (x < 0) = (y < 0) THEN ax \div ay ELSE -(ax \div ay)

\* C18: MLI and DVI read b and a as signed 16-bit numbers: MLI sets b to the
\* low 16 bits and EX to the sign-extended high 16 bits of the signed
\* product (0xFFFF * 0xFFFF gives b = 1, EX = 0); DVI sets b to the signed
\* quotient rounded toward zero (0xFFFC / 2 gives 0xFFFE), and b = 0, EX = 0
\* when a = 0.
C18_Signed ==
    /\ AluStep(MLI) =>
          LET p == Signed(EntryB) * Signed(EntryA)
          IN  /\ ResultB = p % 65536
              /\ cpu.ex = (p \div 65536) % 65536
    /\ AluStep(DVI) =>
          IF EntryA = 0
          THEN ResultB = 0 /\ cpu.ex = 0
          ELSE ResultB = Quot(Signed(EntryB), Signed(EntryA)) % 65536

\* C19: in every operand encoding MOD sets b to the unsigned remainder
\* b % a (0xFFFF MOD 2 = 1) and MDI to the signed remainder truncated toward
\* zero (0xFFFF MDI 2 = 0xFFFF); both set b = 0 when a = 0 and leave EX
\* unchanged.
C19_Mod ==
    /\ AluStep(MOD) =>
          /\ ResultB = (IF EntryA = 0 THEN 0 ELSE EntryB % EntryA)
          /\ cpu.ex = entry.ex
    /\ AluStep(MDI) =>
          /\ ResultB =
                (IF EntryA = 0 THEN 0
                 ELSE (Signed(EntryB)
                       - Signed(EntryA) * Quot(Signed(EntryB), Signed(EntryA))) % 65536)
          /\ cpu.ex = entry.ex

\* ((vb << 16) >> n) & 0xFFFF, the shift being logical on 32 bits
LogicalEx(vb, n) ==
    IF n >= 32 THEN 0
    ELSE IF n >= 16 THEN vb \div Pow2(n - 16)
    ELSE (vb % Pow2(n)) * Pow2(16 - n)

\* (vb << n) & 0xFFFF
ShlLow(vb, n) == IF n >= 16 THEN 0 ELSE (vb % Pow2(16 - n)) * Pow2(n)

\* ((vb << n) >> 16) & 0xFFFF
ShlEx(vb, n) ==
    IF n >= 32 THEN 0
    ELSE IF n >= 16 THEN (vb % Pow2(32 - n)) * Pow2(n - 16)
    ELSE vb \div Pow2(16 - n)

\* the sign-propagating vb >> n
AsrLow(vb, n) ==
    IF n >= 16 THEN (IF Signed(vb) < 0 THEN 65535 ELSE 0)
    ELSE (Signed(vb) \div Pow2(n)) % 65536

\* C20: for every shift count a, SHR sets b to the logical b >> a and EX to
\* ((b << 16) >> a) & 0xFFFF; SHL sets b to (b << a) & 0xFFFF and EX to
\* ((b << a) >> 16) & 0xFFFF; ASR sets b to the sign-propagating b >> a and
\* EX to the value SHR would produce.
C20_Shift ==
    /\ AluStep(SHR) =>
          /\ ResultB = (IF EntryA >= 16 THEN 0 ELSE EntryB \div Pow2(EntryA))
          /\ cpu.ex = LogicalEx(EntryB, EntryA)
    /\ AluStep(SHL) =>
          /\ ResultB = ShlLow(EntryB, EntryA)
          /\ cpu.ex = ShlEx(EntryB, EntryA)
    /\ AluStep(ASR) =>
          /\ ResultB = AsrLow(EntryB, EntryA)
          /\ cpu.ex = LogicalEx(EntryB, EntryA)

\* ------------------------------------------------- arithmetic with carry
\* carry programs: ADX B, A or SBX B, A at address 0 over boundary values of
\* B, A and EX
MaxCarrySteps == 1

CarryVals == {0, 1, 32767, 32768, 65535}

CarryMachines ==
    {[Machine(Image(0, <<Word(o, A, B)>>), (A :> va) @@ (B :> vb)) EXCEPT !.ex = e] :
        o \in {ADX, SBX}, vb \in CarryVals, va \in CarryVals, e \in {0, 1, 65535}}

InitCarry == \E c \in CarryMachines : Boot(c, MaxCarrySteps)

SpecCarry == InitCarry /\ [][Next]_vars

\* C21: ADX sets b to (b + a + EX) mod 2^16 and EX to 1 iff b + a + EX >=
\* 2^16, else 0; SBX sets b to (b - a + EX) mod 2^16 and EX to 0xFFFF iff
\* b - a + EX < 0, else 0.
C21_CarryChain ==
    /\ AluStep(ADX) =>
          /\ ResultB = (EntryB + EntryA + entry.ex) % 65536
          /\ cpu.ex = (IF EntryB + EntryA + entry.ex >= 65536 THEN 1 ELSE 0)
    /\ AluStep(SBX) =>
          /\ ResultB = (EntryB - EntryA + entry.ex) % 65536
          /\ cpu.ex = (IF EntryB - EntryA + entry.ex < 0 THEN 65535 ELSE 0)

\* ------------------------------------------------------------ STI and STD
\* STI/STD programs: one instruction at address 0 with b = register B and
\* a = register A, b = the cell [X] and a = a next-word literal, or b = a =
\* register A, over several values of I and J
MaxStiSteps == 1

StiVals == {0, 5, 65535}

StiMachines ==
    {Machine(Image(0, ws) @@ Image(AluCell, <<3>>),
             (A :> 77) @@ (B :> 1) @@ (X :> AluCell) @@ (I :> vi) @@ (J :> vj)) :
        ws \in {<<Word(o, A, B)>> : o \in {STI, STD}}
               \cup {<<Word(o, 31, 8 + X), 4660>> : o \in {STI, STD}}
               \cup {<<Word(o, A, A)>> : o \in {STI, STD}},
        vi \in StiVals, vj \in StiVals}

InitSti == \E c \in StiMachines : Boot(c, MaxStiSteps)

SpecSti == InitSti /\ [][Next]_vars

\* C22: for every choice of operands STI sets b to a and then increments I
\* and J by 1 modulo 2^16; STD sets b to a and then decrements I and J by 1
\* modulo 2^16.
C22_StiStd ==
    /\ (AluStep(STI) /\ ArgB(mid.word) \notin {I, J}) =>
          /\ ResultB = EntryA
          /\ cpu.register[I] = (entry.register[I] + 1) % 65536
          /\ cpu.register[J] = (entry.register[J] + 1) % 65536
    /\ (AluStep(STD) /\ ArgB(mid.word) \notin {I, J}) =>
          /\ ResultB = EntryA
          /\ cpu.register[I] = (entry.register[I] + 65535) % 65536
          /\ cpu.register[J] = (entry.register[J] + 65535) % 65536

\* ------------------------------------------------------------ IAS and IAG
\* IA programs: IAS X; IAG Y at address 0, laid out as the specification
\* says or with the extended opcode as a short literal, over several values
\* of X, Y, B and C
MaxIaSteps == 2

IaMachines ==
    {Machine(Image(0, ws),
             (X :> vx) @@ (Y :> vy) @@ (B :> vb) @@ (C :> vc) @@ (A :> 5)) :
        ws \in {<<ExtWord(IAS, X), ExtWord(IAG, Y)>>,
                <<LitExtWord(IAS, X), LitExtWord(IAG, Y)>>},
        vx \in {2, 4660}, vy \in {0, 7}, vb \in {0, 1}, vc \in {0, 1}}

InitIa == \E c \in IaMachines : Boot(c, MaxIaSteps)

SpecIa == InitIa /\ [][Next]_vars

\* the program IAS X; IAG Y in either layout
IaProgram ==
    \/ /\ Mem(start.memory, 0) = ExtWord(IAS, X)
       /\ Mem(start.memory, 1) = ExtWord(IAG, Y)
    \/ /\ Mem(start.memory, 0) = LitExtWord(IAS, X)
       /\ Mem(start.memory, 1) = LitExtWord(IAG, Y)

\* C23: IAS x stores x in IA and IAG y stores IA in y, so IAS X; IAG Y
\* leaves Y = X; neither changes another general register, SP, EX or
\* memory.
C23_IasIag ==
    (IaProgram /\ rpc = "done")
        => /\ nsteps >= 1 => cpu.ia = start.register[X]
           /\ nsteps = 2 => cpu.register[Y] = start.register[X]
           /\ \A r \in (0..7) \ {Y} : cpu.register[r] = start.register[r]
           /\ cpu.sp = start.sp /\ cpu.ex = start.ex
           /\ cpu.memory = start.memory

\* ------------------------------------------------------------ cycle counts
\* cycle programs: one instruction at address 0 followed by four equal words
\* f (50, or 18 = the word IFE A, A), which serve as operand words and as the
\* words a failed IFx skips: every primary opcode 1..31 with a and b drawn
\* from register, [next word + register], PICK, [next word], next-word
\* literal, short literal, POP/PUSH; and extended instructions with the
\* opcode as a short literal or held in register A
MaxTickSteps == 1

TickA == {A, 16, 26, 30, 31, 34, 24}

TickB == {B, 17, 30, 24, 31}

TickFill == {50, 18}

TickExt == ExtOpcodes \cup {2, 19}

TickMachines ==
    {Machine(Image(0, <<Word(o, a, b), f, f, f, f>>), (A :> r[1]) @@ (B :> r[2])) :
        o \in 1..31, a \in TickA, b \in TickB, f \in TickFill,
        r \in {<<0, 0>>, <<3, 0>>, <<0, 3>>}}
    \cup
    {Machine(Image(0, <<LitExtWord(e, b), f, f>>),
             (A :> 5) @@ (B :> 6) @@ (C :> 7) @@ (X :> 3) @@ (Y :> 9)) :
        e \in TickExt, b \in {X, 30, 31}, f \in TickFill}
    \cup
    {Machine(Image(0, <<Word(EXT, A, X), f, f>>),
             (A :> e) @@ (B :> 6) @@ (C :> 7) @@ (X :> 3) @@ (Y :> 9)) :
        e \in TickExt, f \in TickFill}

InitTick == \E c \in TickMachines : Boot(c, MaxTickSteps)

SpecTick == InitTick /\ [][Next]_vars

\* the current step has executed a case of a switch of execute
Dispatched == rpc = "done" /\ mid.sel[1] \in {"prim", "ext"}

\* the words a failed IFx of the current step has passed over
Skipped ==
    IF mid.sel[1] = "prim" /\ mid.sel[2] \in IFB..IFU
    THEN (cpu.pc - entry.pc - Footprint(mid.word)) % 65536
    ELSE 0

\* the cycles each case adds to the fetches, as execute charges them
CodeExtra(sel) ==
    IF sel[1] = "prim"
    THEN CASE sel[2] \in {ADD, SUB, MUL, MLI, STI, STD} \cup (IFB..IFU) -> 1
           [] sel[2] \in {DIV, DVI, MOD, MDI, ADX, SBX} -> 2
           [] OTHER -> 0
    ELSE CASE sel[2] \in {IAQ, HWN} -> 1
           [] sel[2] \in {JSR, RFI} -> 2
           [] sel[2] \in {INT, HWQ, HWI} -> 3
           [] OTHER -> 0

\* the cycles each case adds to the fetches, as the specification lists them
ListedExtra(sel) ==
    IF sel[1] = "prim"
    THEN CASE sel[2] \in {MUL, MLI, SHR, SHL, ASR, ADX, SBX, STI, STD}
                         \cup (IFB..IFU) -> 1
           [] sel[2] \in {DIV, DVI, MOD, MDI} -> 2
           [] OTHER -> 0
    ELSE CASE sel[2] = IAQ -> 1
           [] sel[2] \in {JSR, RFI} -> 2
           [] sel[2] \in {INT, HWQ, HWI} -> 3
           [] OTHER -> 0

\* the instructions the specification's list of cycle counts covers
Listed(sel) ==
    IF sel[1] = "prim"
    THEN sel[2] \in (SET..SHL) \cup (IFB..IFU) \cup {ADX, SBX, STI, STD}
    ELSE sel[2] \in {JSR, INT, RFI, IAQ, HWQ, HWI}

TestTicks(o) ==
    CASE o \in {SET, AND, BOR, XOR, SHL, SHR} -> 1
      [] o \in {ADD, SUB, MUL} -> 2
      [] o \in {DIV, MOD} -> 3

\* C25: with register operands SET, AND, BOR, XOR, SHL, SHR take 1 tick,
\* ADD, SUB, MUL 2, DIV and MOD 3 (also with divisor 0), an IFx 2 when its
\* condition holds and 3 when it skips one word; a next-word operand adds
\* exactly 1.
C25_TestedTicks ==
    /\ (/\ rpc = "done" /\ mid.sel[1] = "prim"
        /\ mid.sel[2] \in {SET, AND, BOR, XOR, SHL, SHR, ADD, SUB, MUL, DIV, MOD}
        /\ ArgB(mid.word) <= 7)
          => cpu.tick = (entry.tick + TestTicks(mid.sel[2])
                         + ExtraWords(ArgA(mid.word))) % 65536
    /\ (/\ rpc = "done" /\ mid.sel[1] = "prim" /\ mid.sel[2] \in IFB..IFU
        /\ ArgA(mid.word) <= 7 /\ ArgB(mid.word) <= 7
        /\ Mem(entry.memory, (entry.pc + 1) % 65536) \notin IFB..IFU)
          => cpu.tick =
                (entry.tick
                 + (IF Holds(mid.sel[2], entry.register[ArgB(mid.word)],
                             entry.register[ArgA(mid.word)])
                    THEN 2 ELSE 3)) % 65536

\* C25 witness: DIV B, A with A = 0 has taken 3 ticks
C25_Witness ==
    /\ rpc = "done"
    /\ mid.word = Word(DIV, A, B)
    /\ entry.register[A] = 0 /\ entry.register[B] = 3
    /\ cpu.tick = entry.tick + 3

\* ------------------------------------------------- messages without a handler
\* discard programs, the extended opcode as a short literal; register C holds
\* a message no other INT of the program sends, and INT C runs only while
\* IA = 0 and queueing is off:
\*   INT C; IAS X; INT Y                     the message meets an empty queue
\*   IAQ X; INT Y; IAQ Z; INT C; IAS X       one message is waiting
\*   IAQ X; INT Y; INT B; IAQ Z; INT C; IAS X   two messages are waiting
MaxDiscardSteps == 7

DiscardPrograms ==
    {<<LitExtWord(INT, C), LitExtWord(IAS, X), LitExtWord(INT, Y)>>,
     <<LitExtWord(IAQ, X), LitExtWord(INT, Y), LitExtWord(IAQ, Z),
       LitExtWord(INT, C), LitExtWord(IAS, X)>>,
     <<LitExtWord(IAQ, X), LitExtWord(INT, Y), LitExtWord(INT, B),
       LitExtWord(IAQ, Z), LitExtWord(INT, C), LitExtWord(IAS, X)>>}

DiscardMachines ==
    {Machine(Image(0, ws),
             (X :> vx) @@ (Y :> 4660) @@ (B :> 7) @@ (C :> vc) @@ (A :> 5)) :
        ws \in DiscardPrograms, vx \in {8, 9}, vc \in {99, 100}}

InitDiscard == \E c \in DiscardMachines : Boot(c, MaxDiscardSteps)

SpecDiscard == InitDiscard /\ [][Next]_vars

\* the boundary found queueing off, IA = 0 and a message waiting
NoHandler ==
    /\ rpc = "done"
    /\ ~mid.c.intQueueing /\ mid.c.ia = 0 /\ Len(mid.c.intQueue) > 0

\* the boundary removed the message at the head and delivered nothing
Dropped ==
    /\ cpu.intQueue = Tail(mid.c.intQueue)
    /\ cpu.pc = mid.c.pc /\ cpu.sp = mid.c.sp
    /\ cpu.register = mid.c.register /\ cpu.memory = mid.c.memory
    /\ cpu.intQueueing = mid.c.intQueueing /\ cpu.ia = mid.c.ia
    /\ out[Len(out)] = <<mid.c.intQueue[1], FALSE>>

\* C26: a boundary with queueing off and IA = 0 removes the pending message
\* undelivered, so the message INT C enqueued while IA = 0 and queueing was
\* off is never delivered, also not to the handler IAS X installs later.
C26_NeverDelivered ==
    /\ NoHandler => Dropped
    /\ \A k \in 1..Len(out) : out[k][1] = start.register[C] => ~out[k][2]

\* ------------------------------------------------------- after the overflow
\* Step() called again after a step() that panicked: the deferred Unlock has
\* released the mutex and the struct holds no fault flag, so a caller that
\* recovered the panic (or another goroutine, before the runtime exits)
\* enters step() as on any other call
StepAgain ==
    /\ rpc = "crashed"
    /\ left > 0
    /\ Lock(mutex)
    /\ mutex' = "step"
    /\ rpc' = "exec"
    /\ oldtick' = cpu.tick
    /\ left' = left - 1
    /\ nsteps' = nsteps + 1
    /\ entry' = cpu
    /\ UNCHANGED <<cpu, wait, start, mid, enq, out, reenabled, boundary, ret, calls,
                   writers>>

MaxFaultSteps == 518

InitFault == \E c \in QueueMachines : Boot(c, MaxFaultSteps)

NextFault == StepLock \/ StepExecute \/ StepInterrupt \/ StepUnlock \/ StepAgain

SpecFault == InitFault /\ [][NextFault]_vars

\* C27: once INT has found the queue full the CPU is halted for good: no
\* later step, a Step() called again included, changes a register, a memory
\* cell or the queue; and the driver stops for no other reason than the fault.
C27_HaltedAfterOverflow ==
    /\ [][mid.panic => cpu' = cpu]_vars
    /\ [](rpc = "crashed" => mid.panic /\ Len(cpu.intQueue) = 256)

\* --------------------------------------------------------- undefined opcodes
\* execute() selected no case: a primary opcode without one, or an extended
\* opcode value without one
Undefined ==
    \/ mid.sel[1] = "prim" /\ mid.sel[2] \in {24, 25, 28, 29}
    \/ mid.sel[1] = "ext" /\ mid.sel[2] \notin ExtOpcodes

\* C28: an instruction whose primary opcode (0x18, 0x19, 0x1C, 0x1D) or
\* extended opcode has no entry in the table is a fatal fault: the step ends
\* in the fault, never as a completed instruction.
C28_UndefinedFaults ==
    (rpc # "exec" /\ Undefined) => mid.panic /\ rpc \in {"panic", "crashed"}

\* ------------------------------------------------------------ no hardware
\* a step of HWN, HWQ or HWI (extended opcode as a short literal) is complete
NoDevice(op) ==
    /\ rpc = "done"
    /\ mid.sel = <<"ext", op>>
    /\ ArgA(mid.word) >= 32

\* C29: with no device attached HWN stores 0 in its operand, HWQ zeroes A, B,
\* C, X and Y, HWI changes no register and no memory cell, and each takes
\* its cycles (2, 4 and 4 with a register operand).
C29_NoHardware ==
    /\ (NoDevice(HWN) /\ ArgB(mid.word) = X) =>
          /\ cpu.register[X] = 0
          /\ \A r \in (0..7) \ {X} : cpu.register[r] = entry.register[r]
          /\ cpu.tick = entry.tick + 2
    /\ (NoDevice(HWN) /\ ArgB(mid.word) = 30) =>
          Mem(cpu.memory, Mem(entry.memory, 1)) = 0
    /\ NoDevice(HWQ) =>
          /\ \A r \in {A, B, C, X, Y} : cpu.register[r] = 0
          /\ cpu.tick = entry.tick + Footprint(mid.word) + 3
    /\ NoDevice(HWI) =>
          /\ cpu.register = entry.register
          /\ cpu.memory = entry.memory
          /\ cpu.sp = entry.sp /\ cpu.ex = entry.ex /\ cpu.ia = entry.ia
          /\ cpu.tick = entry.tick + Footprint(mid.word) + 3

\* ------------------------------------------------------------ Write and Read
\* the words of a span of n words from addr that lie inside memory
Span(addr, n) == IF addr + n > RAMSIZE THEN RAMSIZE - addr ELSE n

\* the cells that are not zero before or after a step, and those a call of
\* Write names (every other cell is zero on both sides)
Cells ==
    DOMAIN cpu.memory \cup DOMAIN cpu'.memory
    \cup {i \in ret'.addr..(ret'.addr + ret'.len) : i < RAMSIZE}

\* C30: Write(addr, data) copies exactly min(len(data), 65536 - addr) words
\* to memory from addr on and changes no other cell and no register;
\* Read(addr, n) returns exactly min(n, 65536 - addr) words equal to memory
\* from addr on and changes nothing; the slice returned is changed neither by
\* steps nor by Writes; and Read(addr, len(data)) right after Write(addr, data)
\* returns the prefix of data that fitted.
C30_WriteRead ==
    [][/\ (calls' = calls + 1 /\ ret'.op = "Write") =>
             LET n == Span(ret'.addr, ret'.len)
             IN  /\ \A i \in Cells :
                       Mem(cpu'.memory, i) =
                           IF i >= ret'.addr /\ i < ret'.addr + n
                           THEN ret'.data[i - ret'.addr + 1]
                           ELSE Mem(cpu.memory, i)
                 /\ [cpu' EXCEPT !.memory = cpu.memory] = cpu
                 /\ ret'.val = ret.val
       /\ (calls' = calls + 1 /\ ret'.op = "Read") =>
             LET n == Span(ret'.addr, ret'.len)
             IN  /\ DOMAIN ret'.val = 1..n
                 /\ \A k \in 1..n :
                       ret'.val[k] = Mem(cpu.memory, ret'.addr + k - 1)
                 /\ cpu' = cpu
                 /\ (/\ ret.op = "Write" /\ ret.addr = ret'.addr
                     /\ ret.len = ret'.len /\ ret.at = ret'.at) =>
                       \A k \in 1..n : ret'.val[k] = ret.data[k]
       /\ calls' = calls => ret'.val = ret.val]_vars

\* C30 witness: Write(65535, <<7, 9>>) stored the one word that fitted and
\* the Read(65535, 2) right after it returned that word alone
C30_Witness ==
    /\ ret.op = "Read" /\ ret.addr = 65535 /\ ret.len = 2
    /\ DOMAIN ret.val = {1} /\ ret.val[1] = 7
    /\ calls = 2 /\ ret.at = 0
    /\ Mem(cpu.memory, 65535) = 7
    /\ Mem(cpu.memory, 0) = Mem(start.memory, 0)

\* ------------------------------------------------------- concurrent Writes
\* mutant of WriterLock: the call enters without waiting for the mutex
WriterLockNoWait(w) ==
    /\ writers[w].pc = "call"
    /\ mutex' = "write"
    /\ writers' = [writers EXCEPT ![w].pc = "copy"]
    /\ UNCHANGED <<cpu, rpc, oldtick, wait, left, nsteps, start, entry, mid,
                   enq, out, reenabled, boundary, ret, calls>>

\* Write(addr, data) step by step, in goroutine w: c.mutex.Lock() ...
WriterLock(w) ==
    /\ writers[w].pc = "call"
    /\ Lock(mutex)
    /\ mutex' = "write"
    /\ writers' = [writers EXCEPT ![w].pc = "copy"]
    /\ UNCHANGED <<cpu, rpc, oldtick, wait, left, nsteps, start, entry, mid,
                   enq, out, reenabled, boundary, ret, calls>>

\* the word copy(c.memory[addr:], data) moves next, if one is left
MoreToCopy(j) == j.k <= Len(j.data) /\ j.addr + j.k - 1 < RAMSIZE

\* ... copy(c.memory[addr:], data), one word at a time ...
WriterCopy(w) ==
    /\ writers[w].pc = "copy"
    /\ MoreToCopy(writers[w])
    /\ LET j == writers[w]
       IN  cpu' = [cpu EXCEPT !.memory = MemSet(@, j.addr + j.k - 1, j.data[j.k])]
    /\ writers' = [writers EXCEPT ![w].k = @ + 1]
    /\ UNCHANGED <<mutex, rpc, oldtick, wait, left, nsteps, start, entry, mid,
                   enq, out, reenabled, boundary, ret, calls>>

\* ... and the deferred c.mutex.Unlock()
WriterUnlock(w) ==
    /\ writers[w].pc = "copy"
    /\ ~MoreToCopy(writers[w])
    /\ mutex' = "free"
    /\ writers' = [writers EXCEPT ![w].pc = "done"]
    /\ boundary' = cpu
    /\ UNCHANGED <<cpu, rpc, oldtick, wait, left, nsteps, start, entry, mid,
                   enq, out, reenabled, ret, calls>>

\* two goroutines each calling Write once, on overlapping regions, while the
\* driver steps an interrupt program that lies under the regions written
MaxWriteSteps == 2

WriteJobs ==
    {[addr |-> 1, data |-> <<7, 9, 11>>], [addr |-> 2, data |-> <<8, 10>>],
     [addr |-> 1, data |-> <<43296>>], [addr |-> 65535, data |-> <<7, 9>>]}

Writer(j) == [pc |-> "call", addr |-> j.addr, data |-> j.data, k |-> 1]

InitWrite ==
    \E c \in ConcMachines, j1 \in WriteJobs, j2 \in WriteJobs :
        Start(c, MaxWriteSteps, <<Writer(j1), Writer(j2)>>)

NextWrite ==
    \/ StepLock \/ StepExecute \/ StepInterrupt \/ StepUnlock
    \/ \E w \in DOMAIN writers : WriterLock(w)
    \/ \E w \in DOMAIN writers : WriterCopy(w)
    \/ \E w \in DOMAIN writers : WriterUnlock(w)

SpecWrite == InitWrite /\ [][NextWrite]_vars

\* the memory after the Write of writer v followed by the Write of writer w
InOrder(v, w) ==
    WriteWords(WriteWords(start, writers[v].addr, writers[v].data),
               writers[w].addr, writers[w].data).memory

\* C31: Writes are serialized with each other and with the steps: a Write
\* acts only between two instructions and changes memory alone, no step and
\* no other Write runs while one copies, and two concurrent Writes leave
\* the memory that one of the two orders of whole Writes leaves.
C31_WritesSerialized ==
    /\ [][writers' # writers =>
             /\ rpc = "idle" /\ rpc' = "idle"
             /\ [cpu' EXCEPT !.memory = cpu.memory] = cpu]_vars
    /\ [](\A w \in DOMAIN writers : writers[w].pc = "copy" =>
             /\ rpc = "idle" /\ mutex = "write"
             /\ \A v \in DOMAIN writers \ {w} : writers[v].pc # "copy")
    /\ []((nsteps = 0 /\ \A w \in DOMAIN writers : writers[w].pc = "done") =>
             cpu.memory \in {InOrder(1, 2), InOrder(2, 1)})

\* C31 witness: Write(1, <<7, 9, 11>>) and Write(2, <<8, 10>>) were called
\* concurrently and the second ran first, before any step
C31_Witness ==
    /\ DOMAIN writers = {1, 2}
    /\ writers[1].pc = "done" /\ writers[2].pc = "done"
    /\ writers[1].addr = 1 /\ writers[2].addr = 2
    /\ nsteps = 0
    /\ cpu.memory = InOrder(2, 1) /\ cpu.memory # InOrder(1, 2)
    /\ Mem(cpu.memory, 2) = 9 /\ Mem(cpu.memory, 3) = 11

\* ------------------------------------------------------------ the loop
\* SET I, 10; L: SUB I, 1; IFN I, 0; SET PC, L with short-literal operands,
\* L = 1, over two values of A; the driver makes the 30 steps the loop needs
MaxLoopSteps == 30

LoopProgram ==
    <<Word(SET, 33 + 10, I), Word(SUB, 33 + 1, I), Word(IFN, 33 + 0, I),
      Word(SET, 33 + 1, 28)>>

LoopMachines == {Machine(Image(0, LoopProgram), (A :> v)) : v \in {0, 5}}

InitLoop == \E c \in LoopMachines : Boot(c, MaxLoopSteps)

SpecLoop == InitLoop /\ [][Next]_vars

\* the driver goes on stepping: Run() is for true { c.step() }
SpecLoopFair == SpecLoop /\ WF_vars(Next)

\* the loop has been left: PC is at the word after SET PC, L
LoopLeft == rpc = "idle" /\ cpu.pc = 4 /\ nsteps > 0

\* C32: the loop terminates: after finitely many steps PC is at the word
\* after SET PC, L, with I = 0 there; SUB has then run exactly 10 times (the
\* k-th SUB is step 3k - 1 and leaves I = 10 - k, the loop is left at step 30).
C32_LoopTerminates ==
    /\ <>LoopLeft
    /\ [](LoopLeft => cpu.register[I] = 0 /\ nsteps = 30)
    /\ []((rpc = "done" /\ mid.sel = <<"prim", SUB>> /\ nsteps <= 30) =>
             /\ nsteps % 3 = 2
             /\ cpu.register[I] = 10 - (nsteps + 1) \div 3)
    /\ []((rpc = "done" /\ nsteps <= 30 /\ nsteps % 3 = 2) =>
             mid.sel = <<"prim", SUB>>)

\* C32 witness: the tenth SUB has brought I to 0 and the IFN after it has
\* skipped SET PC, L
C32_Witness ==
    /\ rpc = "done" /\ nsteps = 30
    /\ mid.sel = <<"prim", IFN>>
    /\ entry.pc = 2 /\ cpu.pc = 4 /\ cpu.register[I] = 0

\* ------------------------------------------------------------ PC advance
\* programs of one instruction followed by fill words: every primary opcode
\* with b drawn from PC, B, [next word] and a from A, short literal 1,
\* next-word literal, POP; extended instructions with operand X or PC; and
\* IAS X; INT Y, whose second step delivers an interrupt
MaxPcSteps == 2

PcMachines ==
    {Machine(Image(0, <<Word(o, a, b), f, f, f, f>>), (A :> v) @@ (B :> 3)) :
        o \in 1..31, a \in {A, 34, 31, 24}, b \in {28, B, 30}, f \in TickFill,
        v \in {0, 3}}
    \cup
    {Machine(Image(0, <<LitExtWord(e, b), f, f>>), IntRegs) :
        e \in ExtOpcodes, b \in {X, 28}, f \in TickFill}
    \cup
    {Machine(Image(0, <<LitExtWord(IAS, X), LitExtWord(INT, Y)>>), IntRegs)}

InitPc == \E c \in PcMachines : Boot(c, MaxPcSteps)

SpecPc == InitPc /\ [][Next]_vars

\* nextWord() calls of the current step, counted by the ticks they charged
FetchedWords ==
    (cpu.tick - entry.tick
        - (IF mid.sel[1] \in {"prim", "ext"} THEN CodeExtra(mid.sel) ELSE 0))
    % 65536

\* the boundary of the current step delivered an interrupt
DeliveredNow == cpu.intQueueing /\ ~mid.c.intQueueing

\* the current step ran JSR or RFI
Jumped == mid.sel \in {<<"ext", JSR>>, <<"ext", RFI>>}

\* the instruction stores through a pointer to pc: a primary instruction
\* other than IFx with b = PC, or an extended one with a = PC
StoresToPc ==
    IF Op(mid.word) = EXT THEN ArgA(mid.word) = 28
    ELSE ArgB(mid.word) = 28 /\ Op(mid.word) \notin IFB..IFU

\* C33 as stated: after a step that delivers no interrupt and whose
\* instruction is not JSR, RFI or SET with destination PC, PC is its value at
\* entry plus the number of words fetched, modulo 2^16.
C33_PcAdvanceExceptSet ==
    (/\ rpc = "done" /\ ~DeliveredNow /\ ~Jumped
     /\ ~(mid.sel = <<"prim", SET>> /\ ArgB(mid.word) = 28))
        => cpu.pc = (entry.pc + FetchedWords) % 65536

\* C33 amended: after a step that delivers no interrupt and whose instruction
\* is not JSR or RFI and has not PC as the operand it stores to, PC is its
\* value at entry plus the number of words fetched, modulo 2^16.
C33_PcAdvance ==
    (rpc = "done" /\ ~DeliveredNow /\ ~Jumped /\ ~StoresToPc)
        => cpu.pc = (entry.pc + FetchedWords) % 65536

\* C33 witness: a failed IFE with two operand words has fetched five words,
\* two of them skipped, and PC is five words on
C33_Witness ==
    /\ rpc = "done" /\ nsteps = 1
    /\ mid.sel = <<"prim", IFE>> /\ mid.word = Word(IFE, 31, 30)
    /\ FetchedWords = 5 /\ cpu.pc = 5

\* ------------------------------------------------------------ tick wrap
\* one-instruction loops, run until the tick counter has wrapped:
\*   SUB PC, 1          2 cycles, tick reaches 0xFFFE and wraps to 0
\*   MOD PC, 1          3 cycles, tick reaches 0xFFFF and wraps to 2
\*   DIV PC, 9 (next-word literal a)   4 cycles, tick reaches 0xFFFC
MaxWrapSteps == 32770

WrapMachines ==
    {Machine(Image(0, ws), IntRegs) :
        ws \in {<<Word(SUB, 34, 28)>>, <<Word(MOD, 34, 28)>>,
                <<Word(DIV, 31, 28), 9>>}}

InitWrap == \E c \in WrapMachines : Boot(c, MaxWrapSteps)

SpecWrap == InitWrap /\ [][Next]_vars

\* the cycles the instruction of the current step claims: one per word
\* fetched, skipped words included, and those of its case
Claimed ==
    Footprint(mid.word)
    + (IF mid.sel[1] \in {"prim", "ext"} THEN CodeExtra(mid.sel) + Skipped ELSE 0)

\* C34: every step changes the tick counter: it grows by the positive number
\* of cycles the instruction claims, modulo 2^16 (0xFFFE + 2 = 0), and the
\* difference the driver computes for pacing is (tick after - tick before)
\* mod 2^16, the cycles claimed.
C34_TickWraps ==
    rpc = "done" =>
        /\ Claimed >= 1
        /\ cpu.tick = (entry.tick + Claimed) % 65536
        /\ cpu.tick # entry.tick
        /\ wait = (cpu.tick - entry.tick) % 65536
        /\ wait = Claimed

\* C34 witness: SUB PC, 1 entered with tick = 0xFFFE has left tick = 0, and
\* the driver waits two cycles
C34_Witness ==
    /\ rpc = "done"
    /\ mid.sel = <<"prim", SUB>>
    /\ entry.tick = 65534 /\ cpu.tick = 0 /\ wait = 2

\* ------------------------------------------------------- order of operands
\* order programs: SET or ADD with both operands consuming a next word, the
\* two words and the cells they lead to all different; and SET SP, s followed
\* by SET or ADD with a = POP and b = PUSH, over a stack pointer in the
\* middle of memory and at its last word
MaxOrderSteps == 2

OrderData ==
    (100 :> 11) @@ (101 :> 12) @@ (102 :> 16) @@ (200 :> 13) @@ (201 :> 14)
    @@ (202 :> 15) @@ (199 :> 40) @@ (65535 :> 21) @@ (65534 :> 41)

OrderMachines ==
    {Machine(Image(0, <<Word(o, a, b), 100, 200>>) @@ OrderData,
             (A :> 1) @@ (B :> 2)) :
        o \in {SET, ADD}, a \in {30, 31, 16, 26}, b \in {30, 17, 26}}
    \cup
    {Machine(Image(0, <<Word(SET, 31, 27), s, Word(o, 24, 24)>>) @@ OrderData,
             (A :> 1) @@ (B :> 2)) :
        o \in {SET, ADD}, s \in {200, 65535}}

InitOrder == \E c \in OrderMachines : Boot(c, MaxOrderSteps)

SpecOrder == InitOrder /\ [][Next]_vars

\* the cell a destination code that consumes the next word nw addresses
DestAddr(c, code, nw) ==
    CASE code >= 16 /\ code <= 23 -> (nw + c.register[code - 16]) % 65536
      [] code = 26 -> (c.sp + nw) % 65536
      [] code = 30 -> nw

\* what SET or ADD (o) stores, given the old destination and the source
Stored(o, old, src) == IF o = SET THEN src ELSE (old + src) % 65536

\* C35: a is resolved before b: when both consume a next word, a's word is
\* the one after the opcode word and b's the one after that; with a = POP
\* and b = PUSH the pop comes first, so b addresses the cell a read and SP
\* ends unchanged.
C35_AThenB ==
    (rpc = "done" /\ mid.sel[1] = "prim" /\ mid.sel[2] \in {SET, ADD}) =>
        LET w  == mid.word
            w1 == Mem(entry.memory, (entry.pc + 1) % 65536)
            w2 == Mem(entry.memory, (entry.pc + 2) % 65536)
        IN  /\ (ExtraWords(ArgA(w)) = 1 /\ ExtraWords(ArgB(w)) = 1) =>
                  LET d == DestAddr(entry, ArgB(w), w2)
                  IN  /\ Mem(cpu.memory, d) =
                            Stored(Op(w), Mem(entry.memory, d),
                                   SourceValue(entry, ArgA(w), w1))
                      /\ cpu.memory = MemSet(entry.memory, d, Mem(cpu.memory, d))
                      /\ cpu.pc = (entry.pc + 3) % 65536
            /\ (ArgA(w) = 24 /\ ArgB(w) = 24) =>
                  LET old == Mem(entry.memory, entry.sp)
                  IN  /\ cpu.sp = entry.sp
                      /\ cpu.memory =
                            MemSet(entry.memory, entry.sp, Stored(Op(w), old, old))

\* C35 witness: ADD PUSH, POP with SP at the last word of memory has doubled
\* that word and left SP where it was
C35_Witness ==
    /\ rpc = "done" /\ nsteps = 2
    /\ mid.word = Word(ADD, 24, 24)
    /\ entry.sp = 65535 /\ cpu.sp = 65535
    /\ Mem(entry.memory, 65535) = 21 /\ Mem(cpu.memory, 65535) = 42

\* ------------------------------------------------------------ 16-bit ranges
\* range programs: SET PC, 0xFFFF, then at 0xFFFF an instruction whose next
\* words are fetched from address 0 on, with A = B = 0xFFFF and SP = 0, so
\* that register + next word, SP + next word, SP - 1, PC + 1 and the results
\* all pass 2^16; extended instructions at 0xFFFF; and IAS X; INT Y, whose
\* delivery pushes below SP = 0. Another goroutine calls Write.
MaxRangeSteps == 2

RangeOps == {SET, ADD, SUB, MUL, DVI, MDI, ASR, SHL, ADX, SBX, STI, STD}

RangeRegs == (A :> 65535) @@ (B :> 65535) @@ (X :> 2) @@ (Y :> 4660)

RangeMachines ==
    {Machine(Image(0, <<Word(SET, 31, 28), 65535>>) @@ (32640 :> 77)
                 @@ (65535 :> Word(o, a, b)), RangeRegs) :
        o \in RangeOps, a \in {A, 16, 24, 26}, b \in {B, 17, 24, 26, 27}}
    \cup
    {Machine(Image(0, <<Word(SET, 31, 28), 65535>>)
                 @@ (65535 :> LitExtWord(e, b)), RangeRegs) :
        e \in ExtOpcodes, b \in {X, 17, 26}}
    \cup
    {Machine(Image(0, <<LitExtWord(IAS, X), LitExtWord(INT, Y)>>), RangeRegs)}

InitRange == \E c \in RangeMachines : Boot(c, MaxRangeSteps)

NextRange == StepLock \/ StepExecute \/ StepInterrupt \/ StepUnlock \/ Write

SpecRange == InitRange /\ [][NextRange]_vars

\* a uint16 value
Word16(v) == v \in 0..65535

\* a pointer returned by lea addresses a cell of memory, if it addresses memory
InMemory(p) == p[1] = "mem" => Word16(p[2])

\* C36: every memory cell and every register (A..J, PC, SP, EX, IA, tick)
\* holds a value in 0..0xFFFF, and every effective address (register + next
\* word, SP + next word, SP - 1, SP + 1, PC + 1) is taken modulo 2^16, so
\* every cell accessed is one of the 65536.
C36_Ranges ==
    /\ \A r \in 0..7 : Word16(cpu.register[r])
    /\ Word16(cpu.pc) /\ Word16(cpu.sp) /\ Word16(cpu.ex)
    /\ Word16(cpu.ia) /\ Word16(cpu.tick)
    /\ \A x \in DOMAIN cpu.memory : Word16(x) /\ Word16(cpu.memory[x])
    /\ \A k \in 1..Len(cpu.intQueue) : Word16(cpu.intQueue[k])
    /\ rpc = "exec" =>
          LET r == Resolved(cpu)
          IN  /\ InMemory(r.a) /\ InMemory(r.b)
              /\ Word16(r.c.pc) /\ Word16(r.c.sp)

\* C36 witness: SET PUSH, [next word + A] at 0xFFFF took its next word from
\* address 0, read the cell (0x7F81 + 0xFFFF) mod 2^16 and pushed it at
\* SP - 1 = 0xFFFF
C36_Witness ==
    /\ rpc = "done"
    /\ mid.word = Word(SET, 16, 24)
    /\ entry.pc = 65535 /\ cpu.pc = 1
    /\ entry.sp = 0 /\ cpu.sp = 65535
    /\ Mem(cpu.memory, 65535) = 77

\* ------------------------------------------------- the step of a failed IFx
\* IFx with register, short-literal and stack operands, followed by an
\* instruction that would move SP, write a register, memory or EX, or change
\* IA, the queueing flag or the queue if it were executed or resolved
MaxIdleSteps == 1

IdleNext ==
    {Word(SET, 24, B), Word(SET, A, 24), Word(SET, 31, 30), Word(ADD, 16, 26),
     Word(SET, 34, 29), Word(STI, 34, C), Word(IFE, 24, 24),
     LitExtWord(INT, Y), LitExtWord(IAS, X), LitExtWord(IAQ, X),
     LitExtWord(JSR, X)}

IdleMachines ==
    {Machine(Image(0, <<Word(o, a, b), n, Word(SET, 24, B), 7>>) @@ (65535 :> v),
             (A :> r[1]) @@ (B :> r[2]) @@ (X :> 2) @@ (Y :> 4660)) :
        o \in IFB..IFU, a \in {A, 24, 34}, b \in {B, 24, 25}, n \in IdleNext,
        r \in {<<0, 0>>, <<1, 0>>, <<0, 1>>}, v \in {0, 1}}

InitIdle == \E c \in IdleMachines : Boot(c, MaxIdleSteps)

SpecIdle == InitIdle /\ [][Next]_vars

\* the current step ran an IFx whose condition, on its resolved operands, is
\* false
Failed ==
    /\ rpc = "done"
    /\ mid.sel[1] = "prim" /\ mid.sel[2] \in IFB..IFU
    /\ LET r == Resolved(entry)
       IN  ~Cond(mid.sel[2], Load(r.c, r.b), Load(r.c, r.a))

\* C37: the step of an IFx whose condition is false changes PC and the tick
\* counter only, apart from the SP change of the IFx's own stack operands:
\* the skipped words are not resolved, so no general register, memory cell,
\* EX, IA, queueing flag or queue entry changes and SP is where the IFx's
\* operands left it.
C37_SkipHasNoEffect ==
    Failed =>
        LET r == Resolved(entry)
        IN  /\ cpu.register = entry.register
            /\ cpu.memory = entry.memory
            /\ cpu.ex = entry.ex /\ cpu.ia = entry.ia
            /\ cpu.intQueueing = entry.intQueueing
            /\ cpu.intQueue = entry.intQueue
            /\ cpu.sp = r.c.sp
            /\ cpu.pc # r.c.pc
            /\ cpu.tick = (r.c.tick + 1 + (cpu.pc - r.c.pc)) % 65536

\* C37 witness: IFE B, A with A # B has skipped SET B, POP: B and SP are as
\* they were
C37_Witness ==
    /\ Failed
    /\ mid.word = Word(IFE, A, B)
    /\ Mem(entry.memory, 1) = Word(SET, 24, B)
    /\ cpu.pc = 2 /\ cpu.sp = 0 /\ cpu.register[B] = 0 /\ cpu.register[A] = 1

\* ------------------------------------- extended instructions and literals
\* C38: an extended instruction whose operand is the next-word literal
\* (operand code 0x1f) executes normally on the fetched word: JSR pushes the
\* return address and jumps to it, INT enqueues it, IAS stores it in IA, IAQ
\* sets the flag from it, HWQ and HWI take their cycles.
C38_ExtLiteralOperand ==
    (/\ rpc = "done"
     /\ Op(mid.word) = EXT /\ ArgB(mid.word) = 31
     /\ ArgA(mid.word) - 33 \in {JSR, INT, IAS, IAQ, HWQ, HWI})
        => LET op  == ArgA(mid.word) - 33
               lit == Mem(entry.memory, (entry.pc + 1) % 65536)
           IN  /\ mid.sel = <<"ext", op>>
               /\ op = JSR =>
                     /\ mid.c.pc = lit
                     /\ mid.c.sp = (entry.sp - 1) % 65536
                     /\ Mem(mid.c.memory, mid.c.sp) = (entry.pc + 2) % 65536
               /\ op = INT => enq = Append(entry.intQueue, lit)
               /\ op = IAS => mid.c.ia = lit
               /\ op = IAQ => mid.c.intQueueing = (lit # 0)
               /\ op \in {HWQ, HWI} => cpu.tick = (entry.tick + 5) % 65536

\* ------------------------------------------- conditionals on a literal b
\* C39: an IFx whose b operand is the next-word literal still compares that
\* literal with a, skips when the condition is false and is charged the IFx
\* cycle.
C39_IfLiteralCompares ==
    (rpc = "done" /\ Op(mid.word) \in IFB..IFU /\ ArgB(mid.word) = 31)
        => LET r == Resolved(entry)
           IN  /\ mid.sel = <<"prim", Op(mid.word)>>
               /\ IF Cond(Op(mid.word), Load(r.c, r.b), Load(r.c, r.a))
                  THEN /\ cpu.pc = r.c.pc
                       /\ cpu.tick = (r.c.tick + 1) % 65536
                  ELSE /\ cpu.pc # r.c.pc
                       /\ cpu.tick = (r.c.tick + 1 + (cpu.pc - r.c.pc)) % 65536

\* --------------------------------------------- delivery after RFI and IAQ 0
\* the instruction of the current step has left queueing off, a message
\* waiting and a handler installed
Deliverable ==
    /\ rpc \in {"intr", "done"}
    /\ ~mid.c.intQueueing /\ Len(mid.c.intQueue) > 0 /\ mid.c.ia # 0

\* C40: when an instruction leaves queueing off with the queue non-empty and
\* IA # 0, RFI and IAQ 0 in particular, the next message is delivered at the
\* end of the same step, before another instruction executes: after such an
\* RFI queueing is on again, PC = IA, A is the message, and the A and PC that
\* RFI has just popped are back on the stack, in the cells they came from.
C40_DeliveredInSameStep ==
    /\ [][(Deliverable /\ rpc = "intr") =>
             /\ rpc' = "done" /\ nsteps' = nsteps
             /\ cpu'.intQueueing /\ cpu'.pc = cpu.ia
             /\ cpu'.register[A] = cpu.intQueue[1]
             /\ cpu'.intQueue = Tail(cpu.intQueue)
             /\ cpu'.sp = (cpu.sp - 2) % 65536
             /\ Mem(cpu'.memory, cpu'.sp) = cpu.register[A]
             /\ Mem(cpu'.memory, (cpu'.sp + 1) % 65536) = cpu.pc]_vars
    /\ []((rpc \in {"intr", "done"} /\ mid.sel = <<"ext", RFI>>) =>
             /\ ~mid.c.intQueueing
             /\ mid.c.register[A] = Mem(entry.memory, entry.sp)
             /\ mid.c.pc = Mem(entry.memory, (entry.sp + 1) % 65536))
    /\ []((Deliverable /\ rpc = "done" /\ mid.sel = <<"ext", RFI>>) =>
             /\ cpu.sp = entry.sp
             /\ Mem(cpu.memory, cpu.sp) = Mem(entry.memory, entry.sp)
             /\ Mem(cpu.memory, (cpu.sp + 1) % 65536)
                   = Mem(entry.memory, (entry.sp + 1) % 65536))
    /\ []((rpc \in {"intr", "done"} /\ mid.sel = <<"ext", IAQ>>) =>
             LET r == Resolved(entry)
             IN  mid.c.intQueueing <=> Load(r.c, r.b) # 0)

\* C40 witness: RFI has returned from the handler of the first message with
\* a second one waiting, and the same step has delivered it
C40_Witness ==
    /\ Deliverable /\ rpc = "done"
    /\ mid.sel = <<"ext", RFI>>
    /\ mid.c.register[A] = 5 /\ mid.c.pc = 2
    /\ cpu.intQueueing /\ cpu.pc = cpu.ia /\ cpu.register[A] = 7
    /\ Mem(cpu.memory, cpu.sp) = 5 /\ Mem(cpu.memory, (cpu.sp + 1) % 65536) = 2

====
